---- MODULE Spec2Model ----
(***************************************************************************)
(* Verification model of the brrrand proxy: the KV-backed rate limiter     *)
(* (src/src/utils/rateLimiter.ts), the proxy handlers that call it         *)
(* (src/src/worker.ts, functions/api/proxy.ts) and the regex content       *)
(* sanitizers (src/functions/_lib/utils.ts).                               *)
(***************************************************************************)
EXTENDS Integers, Sequences, FiniteSets, TLC

VARIABLES
    clock,      \* wall-clock time in ms (what Date.now() and the store see)
    kv,         \* the KV namespace: key -> [val, exp]
    call,       \* per call slot: position in checkRateLimit and its locals
    last,       \* the RateLimitResult returned by the call that finished last
    hist,       \* per key: history counters of the calls made for that key
    reported,   \* per identity: the latest resetTime a finished call reported
    faults,     \* number of store failures that have happened
    content,    \* the markup handed to a sanitizer
    mode,       \* the sanitizer applied to it: "strict" or "minimal"
    out,        \* what the sanitizer returned for content
    out2,       \* what the same sanitizer returned for out
    stage,      \* "raw", "once" (out is set), "twice" (out2 is set), or "caught" /
                \* "caught twice" (out is what a catch block returned)
    doc,        \* the nodes content was written from (empty when it was not)
    req,        \* the proxy request being handled: its inputs and position
    resp,       \* the response the proxy gave to the last finished request
    served,     \* number of proxy requests received
    jsEngine,   \* the JavaScript engine the extraction runs on
    extraction, \* the extractAssets call: its parser, its address and its position
    fetched,    \* the page the call fetched
    found,      \* parseHtmlSecurely: the assets gathered before the stylesheets
    fromCss,    \* extractAssetsFromCssLinks: the assets gathered so far
    toFetch,    \* extractAssetsFromCssLinks: the stylesheets still to fetch
    extracted,  \* what extractAssets returned
    colorInput, \* the text normalizeColor is called with
    colorOutput, \* what normalizeColor returned for it
    wallClock,  \* Date.now() as the Express server sees it
    requestCounts,    \* the server's limiter: requests counted per address
    lastRequestTimes, \* the server's limiter: time of the last counted request
    serverResult,     \* what the last call of the server's limiter returned
    admittedAt, \* per instant: the calls the server's limiter admitted
    consent,    \* the analytics service: this.consent
    savedConsent,     \* localStorage: the saved consent (empty: none)
    initialized,      \* the analytics service: this.initialized
    gtmInitialized,   \* the analytics service: this.gtmInitialized
    gaInitialized,    \* the analytics service: this.gaInitialized
    injected,   \* the elements the service added to the document
    dataLayer,  \* window.dataLayer
    gtagDefined,      \* whether window.gtag is defined
    buildEnv,   \* import.meta.env of the build
    urlInput,   \* the landing page: url, the text of the field
    validationError,  \* the landing page: validationError
    isValidating,     \* the landing page: isValidating
    isExtracting,     \* the landing page: isExtracting
    extractionResult, \* the landing page: extractionResult
    isDemoMode, \* the landing page: isDemoMode
    pending,    \* the extraction handleSubmit awaits ("none": none)
    submits     \* submissions of the form so far

limVars == <<clock, kv, call, last, hist, reported, faults>>

sanVars == <<content, mode, out, out2, stage, doc>>

proxyVars == <<req, resp, served>>

extVars == <<jsEngine, extraction, fetched, found, fromCss, toFetch, extracted>>

colorVars == <<colorInput, colorOutput>>

serverVars == <<wallClock, requestCounts, lastRequestTimes, serverResult, admittedAt>>

analyticsVars == <<consent, savedConsent, initialized, gtmInitialized, gaInitialized,
                   injected, dataLayer, gtagDefined, buildEnv>>

landingVars == <<urlInput, validationError, isValidating, isExtracting, extractionResult,
                 isDemoMode, pending, submits>>

vars == <<clock, kv, call, last, hist, reported, faults, content, mode, out, out2, stage, doc,
          req, resp, served, jsEngine, extraction, fetched, found, fromCss, toFetch, extracted,
          colorInput, colorOutput,
          wallClock, requestCounts, lastRequestTimes, serverResult, admittedAt,
          consent, savedConsent, initialized, gtmInitialized, gaInitialized,
          injected, dataLayer, gtagDefined, buildEnv,
          urlInput, validationError, isValidating, isExtracting, extractionResult,
          isDemoMode, pending, submits>>

(***************************************************************************)
(* Bounds of the model.                                                    *)
(***************************************************************************)
MaxProcs == 2        \* call slots, i.e. calls that can be in flight at once
MaxFaults == 1       \* store failures (get or put throwing) per behaviour
MaxOverlaps == 3     \* calls that may begin while another is in flight
MaxCallsPerKey == 104 \* calls begun for one key
MaxFrags == 3        \* fragments an input of the sanitizers is made of
MaxServed == 2       \* proxy requests per behaviour
MaxFreshCalls == 2   \* calls per key in SpecFresh
MaxNodes == 2        \* nodes a document handed to the sanitizers is made of

(***************************************************************************)
(* RATE_LIMIT_CONFIG                                                       *)
(***************************************************************************)
WINDOW_SIZE == 60 * 60 * 1000
MAX_REQUESTS == 100
KEY_PREFIX == "rate_limit:"

Procs == 1..MaxProcs
Ips == {"ip1", "ip2", "unknown"}
\* the identity whose calls Spec and SpecSeq follow
OneIp == {"ip1"}
\* the clock samples two consecutive windows: the previous and the new one
WindowStarts == {0, WINDOW_SIZE}
\* sampled instants: the first and the last millisecond of every window
Instants == {ws + o : ws \in WindowStarts, o \in {0, WINDOW_SIZE - 1}}

(***************************************************************************)
(* Number <-> decimal string, as Number.prototype.toString and parseInt    *)
(* do it; a string is a tuple of one-character strings.                    *)
(***************************************************************************)
DigitChars == <<"0", "1", "2", "3", "4", "5", "6", "7", "8", "9">>

RECURSIVE toString(_)
toString(n) ==
    IF n < 10 THEN <<DigitChars[n + 1]>>
    ELSE toString(n \div 10) \o <<DigitChars[(n % 10) + 1]>>

DigitValue(c) == CHOOSE d \in 0..9 : DigitChars[d + 1] = c

RECURSIVE parseInt(_)
parseInt(s) ==
    IF Len(s) = 1 THEN DigitValue(s[1])
    ELSE 10 * parseInt(SubSeq(s, 1, Len(s) - 1)) + DigitValue(s[Len(s)])

\* Math.floor(a / b) and Math.ceil(a / b) on integers
FloorDiv(a, b) == a \div b
CeilDiv(a, b) == -((-a) \div b)

(***************************************************************************)
(* checkRateLimit, lines 27-32: the locals computed before the try block.  *)
(***************************************************************************)
\* faulty variant of KeyOf: the window is left out of the key
KeyOfNoWindow(clientIp, windowStart) == <<KEY_PREFIX, clientIp, 0>>

WindowStartOf(now) == FloorDiv(now, WINDOW_SIZE) * WINDOW_SIZE
ResetTimeOf(now) == WindowStartOf(now) + WINDOW_SIZE
KeyOf(clientIp, windowStart) == <<KEY_PREFIX, clientIp, windowStart>>
\* faulty variant of TtlOf: the remaining time is rounded down
TtlOfFloor(now) == FloorDiv(ResetTimeOf(now) - now, 1000)
TtlOf(now) == CeilDiv(ResetTimeOf(now) - now, 1000)

AllKeys == {KeyOf(ip, ws) : ip \in Ips, ws \in WindowStarts}

(***************************************************************************)
(* The KV namespace: get returns null (here <<>>) for a key that was never *)
(* put or whose expirationTtl has run out; put overwrites value and expiry.*)
(***************************************************************************)
Null == <<>>
NoEntry == [val |-> Null, exp |-> 0]
KvGet(store, key, t) == IF store[key].val # Null /\ t < store[key].exp THEN store[key].val ELSE Null
KvPut(store, key, value, ttl, t) == [store EXCEPT ![key] = [val |-> value, exp |-> t + ttl * 1000]]

\* faulty variant of CurrentCount: the stored count is never read back
CurrentCountDropped(currentCountStr) == 0

\* line 37: currentCountStr ? parseInt(currentCountStr, 10) : 0
CurrentCount(currentCountStr) == IF currentCountStr # Null THEN parseInt(currentCountStr) ELSE 0

\* faulty variant of LimitExceeded: the comparison is off by one
LimitExceededOffByOne(currentCount) == currentCount > MAX_REQUESTS

\* line 40: the limit test
LimitExceeded(currentCount) == currentCount >= MAX_REQUESTS

\* faulty variant of CatchResult: a store failure blocks the request
CatchResultFailClosed(resetTime) ==
    [limited |-> TRUE, remaining |-> 0, resetTime |-> resetTime]

\* the three results checkRateLimit can return
LimitedResult(resetTime) == [limited |-> TRUE, remaining |-> 0, resetTime |-> resetTime]
PassResult(newCount, resetTime) ==
    [limited |-> FALSE, remaining |-> MAX_REQUESTS - newCount, resetTime |-> resetTime]
CatchResult(resetTime) ==
    [limited |-> FALSE, remaining |-> MAX_REQUESTS - 1, resetTime |-> resetTime]

Idle == [pc |-> "idle", ip |-> "", now |-> 0, cur |-> 0, late |-> FALSE, fresh |-> FALSE]
NoResult == [limited |-> FALSE, remaining |-> -1, resetTime |-> 0,
             key |-> <<>>, nth |-> 0, how |-> "none", late |-> FALSE, fresh |-> FALSE]
NoHist == [begun |-> 0, passes |-> 0, failOpens |-> 0, overlaps |-> 0, late |-> FALSE, peak |-> 0]

CallKey(p) == KeyOf(call[p].ip, WindowStartOf(call[p].now))
InFlight(key) == {q \in Procs : call[q].pc # "idle" /\ CallKey(q) = key}
IdleSlots == {p \in Procs : call[p].pc = "idle"}
FirstIdle == CHOOSE p \in IdleSlots : \A q \in IdleSlots : p <= q

\* a store operation of a call that happens after the call's window has ended
IsLate(p) == clock >= ResetTimeOf(call[p].now)

\* what a finished call leaves behind: its result and the history of its key
Finish(p, result, how) ==
    LET key == CallKey(p)
    IN /\ last' = [limited |-> result.limited,
                   remaining |-> result.remaining,
                   resetTime |-> result.resetTime,
                   key |-> key,
                   nth |-> hist[key].begun,
                   how |-> how,
                   late |-> call[p].late \/ IsLate(p),
                   fresh |-> call[p].fresh]
       /\ reported' = [reported EXCEPT ![call[p].ip] =
                         IF result.resetTime > @ THEN result.resetTime ELSE @]
       /\ hist' = [hist EXCEPT ![key] =
                     [@ EXCEPT !.passes = @ + (IF result.limited THEN 0 ELSE 1),
                               !.failOpens = @ + (IF how = "catch" THEN 1 ELSE 0),
                               !.late = @ \/ call[p].late \/ IsLate(p)]]
       /\ call' = [call EXCEPT ![p] = Idle]

(***************************************************************************)
(* Time passes: the clock moves to a later instant.                        *)
(***************************************************************************)
TickTo(t) ==
    /\ t > clock
    /\ clock' = t
    /\ UNCHANGED <<kv, call, last, hist, reported, faults>>

(***************************************************************************)
(* checkRateLimit(clientIp, kvStore), lines 23-71, one action per await.   *)
(***************************************************************************)
\* lines 27-32: read the clock, derive window, reset time and key
Begin(p, clientIp) ==
    LET key == KeyOf(clientIp, WindowStartOf(clock))
        others == InFlight(key)
    IN /\ call[p].pc = "idle"
       /\ hist[key].begun < MaxCallsPerKey
       /\ others # {} => hist[key].overlaps < MaxOverlaps
       /\ call' = [call EXCEPT ![p] = [pc |-> "get", ip |-> clientIp, now |-> clock, cur |-> 0,
                                       late |-> FALSE,
                                       fresh |-> /\ reported[clientIp] > 0
                                                 /\ clock >= reported[clientIp]
                                                 /\ \A q \in Procs :
                                                       ~(call[q].pc # "idle" /\ call[q].fresh
                                                         /\ call[q].ip = clientIp)]]
       /\ hist' = [hist EXCEPT ![key] =
                     [@ EXCEPT !.begun = @ + 1,
                               !.overlaps = @ + (IF others # {} THEN 1 ELSE 0),
                               !.peak = IF Cardinality(others) + 1 > @
                                        THEN Cardinality(others) + 1 ELSE @]]
       /\ UNCHANGED <<clock, kv, last, reported, faults>>

\* lines 36-46: kvStore.get resolves; over the limit the call returns at once
Get(p) ==
    /\ call[p].pc = "get"
    /\ LET currentCount == CurrentCount(KvGet(kv, CallKey(p), clock))
       IN IF LimitExceeded(currentCount)
          THEN Finish(p, LimitedResult(ResetTimeOf(call[p].now)), "limited")
          ELSE /\ call' = [call EXCEPT ![p].pc = "put", ![p].cur = currentCount,
                                       ![p].late = IsLate(p)]
               /\ UNCHANGED <<last, hist, reported>>
    /\ UNCHANGED <<clock, kv, faults>>

\* lines 49-59: kvStore.put resolves and the call returns limited:false
Put(p) ==
    /\ call[p].pc = "put"
    /\ LET newCount == call[p].cur + 1
       IN /\ kv' = KvPut(kv, CallKey(p), toString(newCount), TtlOf(call[p].now), clock)
          /\ Finish(p, PassResult(newCount, ResetTimeOf(call[p].now)), "pass")
    /\ UNCHANGED <<clock, faults>>

\* lines 61-70: kvStore.get or kvStore.put rejects; the catch block answers
StoreFails(p) ==
    /\ call[p].pc \in {"get", "put"}
    /\ faults' = faults + 1
    /\ Finish(p, CatchResult(ResetTimeOf(call[p].now)), "catch")
    /\ UNCHANGED <<clock, kv>>

(***************************************************************************)
(* Content sanitizers (functions/_lib/utils.ts).  A string is a tuple of   *)
(* one-character strings; the regular expressions are matched character by *)
(* character, case-insensitively (flag i), and replaced globally (flag g). *)
(***************************************************************************)
UpperCase == <<"A", "B", "C", "D", "E", "F", "G", "H", "I", "J", "K", "L", "M",
               "N", "O", "P", "Q", "R", "S", "T", "U", "V", "W", "X", "Y", "Z">>
LowerCase == <<"a", "b", "c", "d", "e", "f", "g", "h", "i", "j", "k", "l", "m",
               "n", "o", "p", "q", "r", "s", "t", "u", "v", "w", "x", "y", "z">>
Lower(c) == IF \E n \in 1..26 : UpperCase[n] = c
            THEN LowerCase[CHOOSE n \in 1..26 : UpperCase[n] = c]
            ELSE c

\* the character classes \w, \s and ["']
IsWord(c) == \/ \E n \in 1..26 : c = UpperCase[n] \/ c = LowerCase[n]
             \/ \E n \in 1..10 : c = DigitChars[n]
             \/ c = "_"
IsSpace(c) == c \in {" ", "\t", "\n", "\r", "\f"}
IsQuote(c) == c \in {"\"", "'"}

\* the literal lit (lower case) matches s at position i, ignoring case
MatchLit(s, i, lit) ==
    /\ i >= 1
    /\ i + Len(lit) - 1 <= Len(s)
    /\ \A j \in 1..Len(lit) : Lower(s[i + j - 1]) = lit[j]

\* \b between position i - 1 (a word character) and position i
BoundaryAt(s, i) == i > Len(s) \/ ~IsWord(s[i])

Least(S) == CHOOSE x \in S : \A y \in S : x <= y

\* X* for a character class, greedy from position i: the first position not in X
SkipSpaces(s, i) == LET stop == {j \in i..Len(s) : ~IsSpace(s[j])}
                    IN IF stop = {} THEN Len(s) + 1 ELSE Least(stop)
SkipWord(s, i) == LET stop == {j \in i..Len(s) : ~IsWord(s[j])}
                  IN IF stop = {} THEN Len(s) + 1 ELSE Least(stop)
SkipNonQuote(s, i) == LET stop == {j \in i..Len(s) : IsQuote(s[j])}
                      IN IF stop = {} THEN Len(s) + 1 ELSE Least(stop)
\* the first position >= i where lit matches, or 0
FindLit(s, i, lit) == LET at == {j \in i..Len(s) : MatchLit(s, j, lit)}
                      IN IF at = {} THEN 0 ELSE Least(at)

\* literals of the patterns
L_script == <<"<", "s", "c", "r", "i", "p", "t">>
L_endscript == <<"<", "/", "s", "c", "r", "i", "p", "t", ">">>
L_on == <<"o", "n">>
L_href == <<"h", "r", "e", "f">>
L_src == <<"s", "r", "c">>
L_style == <<"s", "t", "y", "l", "e">>
L_expression == <<"e", "x", "p", "r", "e", "s", "s", "i", "o", "n">>
L_javascript == <<"j", "a", "v", "a", "s", "c", "r", "i", "p", "t", ":">>
L_data == <<"d", "a", "t", "a", ":">>
L_vbscript == <<"v", "b", "s", "c", "r", "i", "p", "t", ":">>
L_load == <<"l", "o", "a", "d">>
L_error == <<"e", "r", "r", "o", "r">>
L_click == <<"c", "l", "i", "c", "k">>
TagNames(group) ==
    CASE group = "object" -> {<<"o", "b", "j", "e", "c", "t">>, <<"e", "m", "b", "e", "d">>,
                              <<"a", "p", "p", "l", "e", "t">>}
      [] group = "form" -> {<<"f", "o", "r", "m">>, <<"i", "n", "p", "u", "t">>,
                            <<"b", "u", "t", "t", "o", "n">>,
                            <<"t", "e", "x", "t", "a", "r", "e", "a">>,
                            <<"s", "e", "l", "e", "c", "t">>}
      [] group = "frame" -> {<<"f", "r", "a", "m", "e">>,
                             <<"f", "r", "a", "m", "e", "s", "e", "t">>,
                             <<"i", "f", "r", "a", "m", "e">>}

(***************************************************************************)
(* Each pattern as a matcher: the position just after the match that       *)
(* starts at i, or 0 if the pattern does not match at i.                   *)
(***************************************************************************)
\* /<script\b[^<]*(?:(?!<\/script>)<[^<]*)*<\/script>/ : from "<script" to the
\* first "</script>" after it
MatchScript(s, i) ==
    IF MatchLit(s, i, L_script) /\ BoundaryAt(s, i + 7)
    THEN LET close == FindLit(s, i + 7, L_endscript)
         IN IF close = 0 THEN 0 ELSE close + 9
    ELSE 0

\* /<(?:a|b|c)\b[^>]*>/ : an opening tag of the group, up to the first ">"
MatchOpenTag(s, i, group) ==
    IF /\ i <= Len(s) /\ s[i] = "<"
       /\ \E n \in TagNames(group) : MatchLit(s, i + 1, n) /\ BoundaryAt(s, i + 1 + Len(n))
    THEN LET gt == {j \in (i + 1)..Len(s) : s[j] = ">"}
         IN IF gt = {} THEN 0 ELSE Least(gt) + 1
    ELSE 0

\* /<\/(?:a|b|c)>/ : a closing tag of the group
MatchCloseTag(s, i, group) ==
    LET hit == {n \in TagNames(group) : MatchLit(s, i, <<"<", "/">> \o n \o <<">">>)}
    IN IF hit = {} THEN 0 ELSE i + 3 + Len(CHOOSE n \in hit : TRUE)

\* the tail \s*=\s*["'][^"']*["'] of an attribute from position i
MatchQuotedValue(s, i) ==
    LET eq == SkipSpaces(s, i)
        q == SkipSpaces(s, eq + 1)
        close == SkipNonQuote(s, q + 1)
    IN IF /\ eq <= Len(s) /\ s[eq] = "="
          /\ q <= Len(s) /\ IsQuote(s[q])
          /\ close <= Len(s)
       THEN close + 1 ELSE 0

\* /\s+on\w+\s*=\s*["'][^"']*["']/
MatchHandler(s, i) ==
    IF i <= Len(s) /\ IsSpace(s[i])
    THEN LET on == SkipSpaces(s, i)
             name == on + 2
         IN IF MatchLit(s, on, L_on) /\ name <= Len(s) /\ IsWord(s[name])
            THEN MatchQuotedValue(s, SkipWord(s, name))
            ELSE 0
    ELSE 0

\* /\s+on(?:load|error|click)\s*=\s*["'][^"']*["']/
MatchCriticalHandler(s, i) ==
    IF i <= Len(s) /\ IsSpace(s[i])
    THEN LET on == SkipSpaces(s, i)
             names == {n \in {L_load, L_error, L_click} : MatchLit(s, on + 2, n)}
         IN IF MatchLit(s, on, L_on) /\ names # {}
            THEN MatchQuotedValue(s, on + 2 + Len(CHOOSE n \in names : TRUE))
            ELSE 0
    ELSE 0

\* /(href|src)\s*=\s*["'](?:scheme1|scheme2):[^"']*["']/
MatchSchemeUrl(s, i, schemes) ==
    LET attrs == {a \in {L_href, L_src} : MatchLit(s, i, a)}
    IN IF attrs = {} THEN 0
       ELSE LET eq == SkipSpaces(s, i + Len(CHOOSE a \in attrs : TRUE))
                q == SkipSpaces(s, eq + 1)
                close == SkipNonQuote(s, q + 1)
            IN IF /\ eq <= Len(s) /\ s[eq] = "="
                  /\ q <= Len(s) /\ IsQuote(s[q])
                  /\ \E sch \in schemes : MatchLit(s, q + 1, sch)
                  /\ close <= Len(s)
               THEN close + 1 ELSE 0

\* /style\s*=\s*["'][^"']*expression\s*\([^"']*["']/
MatchStyleExpression(s, i) ==
    IF MatchLit(s, i, L_style)
    THEN LET eq == SkipSpaces(s, i + 5)
             q == SkipSpaces(s, eq + 1)
             close == SkipNonQuote(s, q + 1)
         IN IF /\ eq <= Len(s) /\ s[eq] = "="
               /\ q <= Len(s) /\ IsQuote(s[q])
               /\ close <= Len(s)
               /\ \E k \in (q + 1)..(close - 1) :
                     /\ MatchLit(s, k, L_expression)
                     /\ LET paren == SkipSpaces(s, k + 10)
                        IN paren < close /\ s[paren] = "("
            THEN close + 1 ELSE 0
    ELSE 0

Match(rx, s, i) ==
    CASE rx = "script" -> MatchScript(s, i)
      [] rx = "object" -> MatchOpenTag(s, i, "object")
      [] rx = "/object" -> MatchCloseTag(s, i, "object")
      [] rx = "form" -> MatchOpenTag(s, i, "form")
      [] rx = "/form" -> MatchCloseTag(s, i, "form")
      [] rx = "frame" -> MatchOpenTag(s, i, "frame")
      [] rx = "/frame" -> MatchCloseTag(s, i, "frame")
      [] rx = "handler" -> MatchHandler(s, i)
      [] rx = "criticalHandler" -> MatchCriticalHandler(s, i)
      [] rx = "dangerousUrl" -> MatchSchemeUrl(s, i, {L_javascript, L_data})
      [] rx = "javascriptUrl" -> MatchSchemeUrl(s, i, {L_javascript})
      [] rx = "styleExpression" -> MatchStyleExpression(s, i)

\* String.prototype.replace(rx, '') with flag g: scan left to right, drop each
\* match and go on after it.  at holds the places from i on where rx matches.
RECURSIVE ReplaceFrom(_, _, _)
ReplaceAt(rx, s, i, at) ==
    IF at = {} THEN SubSeq(s, i, Len(s))
    ELSE SubSeq(s, i, Least(at) - 1) \o ReplaceFrom(rx, s, Match(rx, s, Least(at)))
ReplaceFrom(rx, s, i) ==
    IF i > Len(s) THEN <<>>
    ELSE ReplaceAt(rx, s, i, {j \in i..Len(s) : Match(rx, s, j) > 0})

Replace(s, rx) == ReplaceFrom(rx, s, 1)

\* sanitizeContent, lines 128-172: the replacements in source order
StrictPasses == <<"script", "object", "/object", "form", "/form", "frame", "/frame",
                  "handler", "dangerousUrl", "styleExpression">>
\* minimalSanitizeForExtraction, lines 212-234
MinimalPasses == <<"script", "criticalHandler", "javascriptUrl">>

RECURSIVE ApplyPasses(_, _, _)
ApplyPasses(s, passes, n) ==
    IF n > Len(passes) THEN s ELSE ApplyPasses(Replace(s, passes[n]), passes, n + 1)

sanitizeContent(html) == IF html = <<>> THEN <<>> ELSE ApplyPasses(html, StrictPasses, 1)
minimalSanitizeForExtraction(html) ==
    IF html = <<>> THEN <<>> ELSE ApplyPasses(html, MinimalPasses, 1)

Sanitize(m, html) ==
    IF m = "strict" THEN sanitizeContent(html) ELSE minimalSanitizeForExtraction(html)

(***************************************************************************)
(* Inputs of the sanitizers: every concatenation of at most MaxFrags       *)
(* fragments of markup.                                                    *)
(***************************************************************************)
Fragments == {
     <<"<", "s", "c", "r">>,  \* <scr
     <<"<", "i", "f", "r", "a", "m", "e", ">">>,  \* <iframe>
     <<"i", "p", "t", ">", "x", "<", "/", "s", "c", "r", "i", "p", "t", ">">>,  \* ipt>x</script>
     <<"<", "s", "c", "r", "i", "p", "t", ">">>,  \* <script>
     <<"<", "a">>,  \* <a
     <<">">>,  \* >
     <<" ", "o", "n", "c", "l", "i", "c", "k", "=", "'", "x", "'">>,  \*  onclick='x'
     <<" ", "o", "n", "l", "o", "a", "d", "=", "x">>,  \*  onload=x
     <<" ", "h", "r", "e", "f", "=", "'", "j", "a", "v", "a", "s", "c", "r", "i", "p", "t", ":", "x", "'">>,  \*  href='javascript:x'
     <<" ", "s", "r", "c", "=", "\"", "d", "a", "t", "a", ":", "x", "\"">>,  \*  src="data:x"
     <<" ", "h", "r", "e", "f", "=", "v", "b", "s", "c", "r", "i", "p", "t", ":", "x">>  \*  href=vbscript:x
    }

RECURSIVE Concat(_, _)
Concat(fs, n) == IF n > Len(fs) THEN <<>> ELSE fs[n] \o Concat(fs, n + 1)

Inputs == {Concat(fs, 1) : fs \in UNION {[1..n -> Fragments] : n \in 0..MaxFrags}}

\* the proxy hands the fetched body to one of the two sanitizers
SanitizeOnce(m) ==
    /\ stage = "raw"
    /\ mode' = m
    /\ out' = Sanitize(m, content)
    /\ stage' = "once"
    /\ UNCHANGED <<content, out2, doc>>

\* the sanitizer is applied again to its own output
SanitizeAgain ==
    /\ stage = "once"
    /\ out2' = Sanitize(mode, out)
    /\ stage' = "twice"
    /\ UNCHANGED <<content, mode, out, doc>>

(***************************************************************************)
(* The catch blocks of the sanitizers.                                     *)
(***************************************************************************)
\* HTML_ENTITY_MAP, functions/_lib/utils.ts lines 18-24
HTML_ENTITY_MAP(c) ==
    CASE c = "<" -> <<"&", "l", "t", ";">>
      [] c = ">" -> <<"&", "g", "t", ";">>
      [] c = "&" -> <<"&", "a", "m", "p", ";">>
      [] c = "\"" -> <<"&", "q", "u", "o", "t", ";">>
      [] c = "'" -> <<"&", "#", "3", "9", ";">>
      [] OTHER -> <<c>>

\* html.replace(/[<>&"']/g, (c) => HTML_ENTITY_MAP[c] || c)
RECURSIVE EscapeFrom(_, _)
EscapeFrom(s, i) == IF i > Len(s) THEN <<>> ELSE HTML_ENTITY_MAP(s[i]) \o EscapeFrom(s, i + 1)

\* faulty variant of sanitizeContentCatch: the input is returned as it came
sanitizeContentCatchRaw(html) == html

\* sanitizeContent, lines 167-171: what its catch block returns
sanitizeContentCatch(html) == EscapeFrom(html, 1)

\* minimalSanitizeForExtraction, lines 229-233: its catch block returns
\* sanitizeContent(html), which runs normally or ends in its own catch block
minimalSanitizeCatch(html, strictFails) ==
    IF strictFails THEN sanitizeContentCatch(html) ELSE sanitizeContent(html)

\* the cheerio-based sanitizeContent of the Express server: its catch block
serverSanitizeCatch(html) == <<>>

\* a replacement throws: the sanitizer's catch block answers.  inner tells
\* whether the sanitizer called by the catch block throws as well.
SanitizeFails(m, inner) ==
    /\ stage = "raw"
    /\ content # <<>>
    /\ inner => m = "minimal"
    /\ mode' = m
    /\ out' = IF m = "strict" THEN sanitizeContentCatch(content)
              ELSE minimalSanitizeCatch(content, inner)
    /\ stage' = IF inner THEN "caught twice" ELSE "caught"
    /\ UNCHANGED <<content, out2, doc>>

\* the server's sanitizer throws (cheerio.load or a later step)
ServerSanitizeFails ==
    /\ stage = "raw"
    /\ content # <<>>
    /\ mode' = "server"
    /\ out' = serverSanitizeCatch(content)
    /\ stage' = "caught"
    /\ UNCHANGED <<content, out2, doc>>

(***************************************************************************)
(* Documents: sequences of at most MaxNodes nodes.  Each node is written   *)
(* as segments; keep tells whether the segment is something other than a   *)
(* script block, a load/error/click handler attribute or a javascript:     *)
(* href/src attribute.  protected marks the img, svg and style elements.   *)
(***************************************************************************)
Nodes == {
     \* <img class="logo" id="a" src="data:x">
     [name |-> "img", protected |-> TRUE,
      segs |-> <<[keep |-> TRUE, text |-> <<"<", "i", "m", "g", " ", "c", "l", "a", "s", "s", "=", "\"", "l", "o", "g", "o", "\"", " ", "i", "d", "=", "\"", "a", "\"", " ", "s", "r", "c", "=", "\"", "d", "a", "t", "a", ":", "x", "\"", ">">>]>>],
     \* <svg onload="x"><path/></svg>
     [name |-> "svg", protected |-> TRUE,
      segs |-> <<[keep |-> TRUE, text |-> <<"<", "s", "v", "g">>],
                 [keep |-> FALSE, text |-> <<" ", "o", "n", "l", "o", "a", "d", "=", "\"", "x", "\"">>],
                 [keep |-> TRUE, text |-> <<">", "<", "p", "a", "t", "h", "/", ">", "<", "/", "s", "v", "g", ">">>]>>],
     \* <script>x</script>
     [name |-> "script", protected |-> FALSE,
      segs |-> <<[keep |-> FALSE, text |-> <<"<", "s", "c", "r", "i", "p", "t", ">", "x", "<", "/", "s", "c", "r", "i", "p", "t", ">">>]>>],
     \* <a href='javascript:x'>y</a>
     [name |-> "anchor", protected |-> FALSE,
      segs |-> <<[keep |-> TRUE, text |-> <<"<", "a", " ">>],
                 [keep |-> FALSE, text |-> <<"h", "r", "e", "f", "=", "'", "j", "a", "v", "a", "s", "c", "r", "i", "p", "t", ":", "x", "'">>],
                 [keep |-> TRUE, text |-> <<">", "y", "<", "/", "a", ">">>]>>],
     \* <p>use onclick=" here</p>
     [name |-> "text", protected |-> FALSE,
      segs |-> <<[keep |-> TRUE, text |-> <<"<", "p", ">", "u", "s", "e", " ", "o", "n", "c", "l", "i", "c", "k", "=", "\"", " ", "h", "e", "r", "e", "<", "/", "p", ">">>]>>],
     \* <style>b{}</style>
     [name |-> "style", protected |-> TRUE,
      segs |-> <<[keep |-> TRUE, text |-> <<"<", "s", "t", "y", "l", "e", ">", "b", "{", "}", "<", "/", "s", "t", "y", "l", "e", ">">>]>>]
    }

Docs == UNION {[1..n -> Nodes] : n \in 0..MaxNodes}

RECURSIVE SegText(_, _, _)
SegText(segs, n, keptOnly) ==
    IF n > Len(segs) THEN <<>>
    ELSE (IF keptOnly /\ ~segs[n].keep THEN <<>> ELSE segs[n].text)
         \o SegText(segs, n + 1, keptOnly)

RECURSIVE DocText(_, _, _)
DocText(d, n, keptOnly) ==
    IF n > Len(d) THEN <<>>
    ELSE SegText(d[n].segs, 1, keptOnly) \o DocText(d, n + 1, keptOnly)

\* the markup of a document, and the markup of what the extraction-preserving
\* sanitizer is meant to leave of it
Render(d) == DocText(d, 1, FALSE)
Kept(d) == DocText(d, 1, TRUE)

(***************************************************************************)
(* The proxy handlers: handleProxy (src/src/worker.ts) and onRequestGet    *)
(* (functions/api/proxy.ts, the version that can skip the rate limiter).   *)
(***************************************************************************)
\* s starts with the literal lit / contains it (case-sensitive)
StartsWith(s, lit) ==
    Len(lit) <= Len(s) /\ \A j \in 1..Len(lit) : s[j] = lit[j]
Includes(s, lit) ==
    \E i \in 1..(Len(s) - Len(lit) + 1) : \A j \in 1..Len(lit) : s[i + j - 1] = lit[j]

\* target URLs: what new URL(targetUrl) gives for them (parses = FALSE: it throws)
H_localhost == <<"l", "o", "c", "a", "l", "h", "o", "s", "t">>
H_example == <<"e", "x", "a", "m", "p", "l", "e", ".", "c", "o", "m">>
H_172_20 == <<"1", "7", "2", ".", "2", "0", ".", "0", ".", "1">>
H_127_0_0_2 == <<"1", "2", "7", ".", "0", ".", "0", ".", "2">>
NoUrl == [given |-> FALSE, parses |-> FALSE, protocol |-> "", hostname |-> <<>>, unsafeText |-> FALSE]
TargetUrls ==
    {NoUrl,
     [given |-> TRUE, parses |-> FALSE, protocol |-> "", hostname |-> <<>>, unsafeText |-> FALSE],
     [given |-> TRUE, parses |-> TRUE, protocol |-> "ftp:", hostname |-> H_example, unsafeText |-> FALSE],
     [given |-> TRUE, parses |-> TRUE, protocol |-> "http:", hostname |-> H_localhost, unsafeText |-> FALSE],
     [given |-> TRUE, parses |-> TRUE, protocol |-> "http:", hostname |-> H_172_20, unsafeText |-> FALSE],
     [given |-> TRUE, parses |-> TRUE, protocol |-> "http:", hostname |-> H_127_0_0_2, unsafeText |-> FALSE],
     [given |-> TRUE, parses |-> TRUE, protocol |-> "https:", hostname |-> H_example, unsafeText |-> TRUE],
     [given |-> TRUE, parses |-> TRUE, protocol |-> "https:", hostname |-> H_example, unsafeText |-> FALSE]}

\* /^172\.(1[6-9]|2[0-9]|3[0-1])\./
Private172(h) ==
    /\ StartsWith(h, <<"1", "7", "2", ".">>)
    /\ Len(h) >= 7 /\ h[7] = "."
    /\ \/ h[5] = "1" /\ h[6] \in {"6", "7", "8", "9"}
       \/ h[5] = "2" /\ h[6] \in {"0", "1", "2", "3", "4", "5", "6", "7", "8", "9"}
       \/ h[5] = "3" /\ h[6] \in {"0", "1"}

\* isValidUrl of functions/_lib/utils.ts, lines 32-69
isValidUrlPages(url) ==
    /\ url.given
    /\ url.parses
    /\ url.protocol \in {"http:", "https:"}
    /\ url.hostname \notin {<<"l", "o", "c", "a", "l", "h", "o", "s", "t">>,
                            <<"1", "2", "7", ".", "0", ".", "0", ".", "1">>,
                            <<":", ":", "1">>,
                            <<"0", ".", "0", ".", "0", ".", "0">>}
    /\ ~StartsWith(url.hostname, <<"1", "9", "2", ".", "1", "6", "8", ".">>)
    /\ ~StartsWith(url.hostname, <<"1", "0", ".">>)
    /\ ~Private172(url.hostname)
    /\ ~url.unsafeText

\* isValidUrl of src/src/utils/serverUtils.ts, lines 20-61
isValidUrlWorker(url) ==
    /\ url.parses
    /\ url.protocol \in {"http:", "https:"}
    /\ url.hostname # <<>>
    /\ url.hostname \notin {<<"l", "o", "c", "a", "l", "h", "o", "s", "t">>,
                            <<"1", "2", "7", ".", "0", ".", "0", ".", "1">>,
                            <<":", ":", "1">>}
    /\ ~StartsWith(url.hostname, <<"1", "0", ".">>)
    /\ ~Private172(url.hostname)
    /\ ~StartsWith(url.hostname, <<"1", "9", "2", ".", "1", "6", "8", ".">>)
    /\ ~StartsWith(url.hostname, <<"1", "6", "9", ".", "2", "5", "4", ".">>)
    /\ ~StartsWith(url.hostname, <<"2", "2", "4", ".">>)
    /\ url.hostname # <<"2", "5", "5", ".", "2", "5", "5", ".", "2", "5", "5", ".", "2", "5", "5">>

isValidUrl(impl, url) == IF impl = "worker" THEN isValidUrlWorker(url) ELSE isValidUrlPages(url)

\* the handlers' own check, worker.ts lines 124-129
BlockedHost(url) ==
    \/ url.hostname = <<"l", "o", "c", "a", "l", "h", "o", "s", "t">>
    \/ url.hostname = <<"1", "2", "7", ".", "0", ".", "0", ".", "1">>
    \/ StartsWith(url.hostname, <<"1", "9", "2", ".", "1", "6", "8", ".">>)
    \/ StartsWith(url.hostname, <<"1", "0", ".">>)
    \/ StartsWith(url.hostname, <<"1", "7", "2", ".", "1", "6", ".">>)
    \/ url.protocol = "file:"

\* request headers; "" stands for a header that is absent or empty
AddressHeaders ==
    {[cf |-> "", xff |-> "", xreal |-> ""],
     [cf |-> "ip1", xff |-> "", xreal |-> ""],
     [cf |-> "ip1", xff |-> "ip2", xreal |-> ""],
     [cf |-> "", xff |-> "ip2", xreal |-> ""],
     [cf |-> "", xff |-> "", xreal |-> "ip2"]}
HeaderSets ==
    {[cf |-> a.cf, xff |-> a.xff, xreal |-> a.xreal, purpose |-> x] :
        a \in AddressHeaders, x \in {"", "asset-extraction"}}

\* worker.ts lines 139-142: the first header that is set, else 'unknown'
ClientIp(h) ==
    IF h.cf # "" THEN h.cf
    ELSE IF h.xff # "" THEN h.xff
    ELSE IF h.xreal # "" THEN h.xreal
    ELSE "unknown"

\* faulty variant of Admitted: the result of the check is ignored
AdmittedAlways(rateLimitResult) == TRUE

\* worker.ts line 147: if (rateLimitResult.limited) answer 429, else go on
Admitted(rateLimitResult) == ~rateLimitResult.limited

\* functions/api/proxy.ts lines 78-82: the result used when the check is skipped
SkippedResult == [limited |-> FALSE, remaining |-> 100, resetTime |-> clock + 3600000]

\* content types and bodies the upstream can answer with
CT_html == <<"t", "e", "x", "t", "/", "h", "t", "m", "l", ";", " ", "c", "h", "a", "r", "s", "e", "t", "=", "u", "t", "f", "-", "8">>
CT_png == <<"i", "m", "a", "g", "e", "/", "p", "n", "g">>
ContentTypes == {CT_html, CT_png}
L_texthtml == <<"t", "e", "x", "t", "/", "h", "t", "m", "l">>
UpstreamBodies == {<<"<", "b", ">", "h", "i", "<", "/", "b", ">">>,
                   <<"<", "s", "c", "r", "i", "p", "t", ">", "x", "<", "/", "s", "c", "r", "i", "p", "t", ">">>}
Upstream ==
    [kind : {"ok"}, status : {200}, contentType : ContentTypes, body : UpstreamBodies]
    \cup [kind : {"notok"}, status : {403, 404}, contentType : {<<>>}, body : {<<>>}]
    \cup [kind : {"fetch error", "timeout error", "other error"}, status : {0},
          contentType : {<<>>}, body : {<<>>}]

\* sanitizeContent of src/src/utils/serverUtils.ts, lines 67-76: entity encoding
\* (the grave accent, also encoded there, is not in the alphabet of the bodies)
HTML_ENTITIES(c) ==
    CASE c = "&" -> <<"&", "a", "m", "p", ";">>
      [] c = "<" -> <<"&", "l", "t", ";">>
      [] c = ">" -> <<"&", "g", "t", ";">>
      [] c = "\"" -> <<"&", "q", "u", "o", "t", ";">>
      [] c = "'" -> <<"&", "#", "3", "9", ";">>
      [] c = "/" -> <<"&", "#", "x", "2", "F", ";">>
      [] c = "=" -> <<"&", "#", "x", "3", "D", ";">>
      [] OTHER -> <<c>>
RECURSIVE EncodeFrom(_, _)
EncodeFrom(s, i) == IF i > Len(s) THEN <<>> ELSE HTML_ENTITIES(s[i]) \o EncodeFrom(s, i + 1)
sanitizeContentWorker(c) == EncodeFrom(c, 1)

NoRequest == [pc |-> "idle", impl |-> "", url |-> NoUrl,
              headers |-> [cf |-> "", xff |-> "", xreal |-> "", purpose |-> ""],
              hasKV |-> FALSE, checked |-> FALSE, checkedIp |-> "",
              rl |-> [limited |-> FALSE, remaining |-> 0, resetTime |-> 0], fetches |-> 0]
NoResponse == [status |-> 0, body |-> <<>>, sanitizer |-> "none"]
ErrorResponse(status) == [status |-> status, body |-> <<>>, sanitizer |-> "json"]

\* the call slot the proxy's checkRateLimit call runs in
ProxySlot == 1

\* faulty variant of ReturnsBeforeCheck: the check is begun before the URL is
\* looked at
ReturnsAfterCheck == Begin(ProxySlot, "unknown")

\* worker.ts lines 101-136, functions/api/proxy.ts lines 22-66: the handler
\* returns its 400 or 403 above the call of checkRateLimit
ReturnsBeforeCheck == UNCHANGED limVars

\* A request arrives: everything up to the first await.  worker.ts lines
\* 99-145, functions/api/proxy.ts lines 11-94.
ProxyStart(impl, url, headers, hasKV) ==
    LET fresh == [NoRequest EXCEPT !.pc = "done", !.impl = impl, !.url = url,
                                   !.headers = headers, !.hasKV = hasKV]
    IN /\ req.pc \in {"idle", "done"}
       /\ served < MaxServed
       /\ served' = served + 1
       /\ IF ~url.given
          THEN /\ req' = fresh
               /\ resp' = ErrorResponse(400)
               /\ ReturnsBeforeCheck
          ELSE IF ~isValidUrl(impl, url) \/ BlockedHost(url)
          THEN /\ req' = fresh
               /\ resp' = ErrorResponse(403)
               /\ ReturnsBeforeCheck
          ELSE IF impl = "pages" /\ ~hasKV
          THEN \* RATE_LIMIT_KV not available, skipping rate limiting
               /\ req' = [fresh EXCEPT !.pc = "fetch", !.rl = SkippedResult, !.fetches = 1]
               /\ UNCHANGED <<resp, limVars>>
          ELSE /\ Begin(ProxySlot, ClientIp(headers))
               /\ req' = [fresh EXCEPT !.pc = "limit"]
               /\ UNCHANGED resp

\* checkRateLimit has returned: 429, or the upstream fetch is issued.
\* worker.ts lines 145-165.
ProxyResume ==
    /\ req.pc = "limit"
    /\ call[ProxySlot].pc = "idle"
    /\ LET rateLimitResult == [limited |-> last.limited, remaining |-> last.remaining,
                               resetTime |-> last.resetTime]
           checkedReq == [req EXCEPT !.checked = TRUE, !.checkedIp = last.key[2],
                                     !.rl = rateLimitResult]
       IN IF Admitted(rateLimitResult)
          THEN /\ req' = [checkedReq EXCEPT !.pc = "fetch", !.fetches = @ + 1]
               /\ UNCHANGED resp
          ELSE /\ req' = [checkedReq EXCEPT !.pc = "done"]
               /\ resp' = ErrorResponse(429)
    /\ UNCHANGED <<served, limVars>>

\* the body of a 200 answer.  worker.ts lines 208-218, functions/api/proxy.ts
\* lines 159-182.
BodySanitizer(r, up) ==
    IF ~Includes(up.contentType, L_texthtml) THEN "none"
    ELSE IF r.impl = "worker" THEN "entity"
    ELSE IF r.headers.purpose = "asset-extraction" THEN "minimal" ELSE "strict"

SanitizedBody(kind, c) ==
    CASE kind = "none" -> c
      [] kind = "entity" -> sanitizeContentWorker(c)
      [] kind = "minimal" -> minimalSanitizeForExtraction(c)
      [] kind = "strict" -> sanitizeContent(c)

\* the upstream fetch settles and the proxy answers.  worker.ts lines 173-229,
\* functions/api/proxy.ts lines 121-229.
ProxyFetchSettles(up) ==
    /\ req.pc = "fetch"
    /\ req' = [req EXCEPT !.pc = "done"]
    /\ resp' =
         CASE up.kind = "ok" ->
                [status |-> 200,
                 body |-> SanitizedBody(BodySanitizer(req, up), up.body),
                 sanitizer |-> BodySanitizer(req, up)]
           [] up.kind = "notok" -> ErrorResponse(up.status)
           [] up.kind = "fetch error" -> ErrorResponse(502)
           [] up.kind = "timeout error" ->
                ErrorResponse(IF req.impl = "worker" THEN 502 ELSE 504)
           [] up.kind = "other error" ->
                ErrorResponse(IF req.impl = "worker" THEN 502 ELSE 500)
    /\ UNCHANGED <<served, limVars>>

(***************************************************************************)
(* URLs.  new URL(ref, base) for the references the pages hold: absolute   *)
(* http(s) URLs, data: URLs, and scheme-relative, root-relative and        *)
(* path-relative references; no query, fragment or dot segment.            *)
(***************************************************************************)
toLowerCase(s) == [i \in 1..Len(s) |-> Lower(s[i])]

\* String.prototype.indexOf / lastIndexOf for one character; 0 when absent
IndexOf(s, c) ==
    IF \E i \in 1..Len(s) : s[i] = c
    THEN CHOOSE i \in 1..Len(s) : s[i] = c /\ \A j \in 1..(i - 1) : s[j] # c
    ELSE 0
LastIndexOf(s, c) ==
    IF \E i \in 1..Len(s) : s[i] = c
    THEN CHOOSE i \in 1..Len(s) : s[i] = c /\ \A j \in (i + 1)..Len(s) : s[j] # c
    ELSE 0

S_https == <<"h", "t", "t", "p", "s", ":", "/", "/">>
S_http == <<"h", "t", "t", "p", ":", "/", "/">>
S_data == <<"d", "a", "t", "a", ":">>
S_example == <<"h", "t", "t", "p", "s", ":", "/", "/", "e", "x", "a", "m", "p", "l", "e", ".", "c", "o", "m">>

SchemeText(protocol) == IF protocol = "https:" THEN S_https ELSE S_http
IsHttpText(s) == StartsWith(s, S_https) \/ StartsWith(s, S_http)

\* what a failed parse stands for: new URL throws a TypeError
InvalidUrl == [ok |-> FALSE, protocol |-> "", hostname |-> <<>>, pathname |-> <<>>, href |-> <<>>]

MakeUrl(protocol, hostname, pathname) ==
    [ok |-> TRUE, protocol |-> protocol, hostname |-> hostname, pathname |-> pathname,
     href |-> SchemeText(protocol) \o hostname \o pathname]

\* new URL(s) for a text that starts with http:// or https://; a missing or
\* malformed host is a failure, a missing path becomes "/"
ParseHost(protocol, hostname, pathname) ==
    IF hostname = <<>> \/ \E i \in 1..Len(hostname) : IsSpace(hostname[i])
    THEN InvalidUrl
    ELSE MakeUrl(protocol, hostname, pathname)

\* rest is the text after the scheme, slash the place of its first "/"
ParseAfterScheme(protocol, rest, slash) ==
    ParseHost(protocol,
              IF slash = 0 THEN rest ELSE SubSeq(rest, 1, slash - 1),
              IF slash = 0 THEN <<"/">> ELSE SubSeq(rest, slash, Len(rest)))

ParseWithScheme(protocol, rest) == ParseAfterScheme(protocol, rest, IndexOf(rest, "/"))

ParseAbsolute(s) ==
    IF StartsWith(s, S_https)
    THEN ParseWithScheme("https:", SubSeq(s, Len(S_https) + 1, Len(s)))
    ELSE ParseWithScheme("http:", SubSeq(s, Len(S_http) + 1, Len(s)))

\* new URL(ref, base)
\* a relative reference against the parsed base b
Relative(ref, b) ==
    IF ~b.ok THEN InvalidUrl
    ELSE IF StartsWith(ref, <<"/", "/">>)
    THEN ParseWithScheme(b.protocol, SubSeq(ref, 3, Len(ref)))
    ELSE IF StartsWith(ref, <<"/">>)
    THEN MakeUrl(b.protocol, b.hostname, ref)
    ELSE MakeUrl(b.protocol, b.hostname,
                 SubSeq(b.pathname, 1, LastIndexOf(b.pathname, "/")) \o ref)

URL(ref, base) ==
    IF StartsWith(ref, S_data)
    THEN [ok |-> TRUE, protocol |-> "data:", hostname |-> <<>>,
          pathname |-> SubSeq(ref, Len(S_data) + 1, Len(ref)), href |-> ref]
    ELSE IF IsHttpText(ref) THEN ParseAbsolute(ref)
    ELSE IF IsHttpText(base) THEN Relative(ref, ParseAbsolute(base))
    ELSE InvalidUrl

IsHttp(url) == url.protocol \in {"http:", "https:"}

\* resolveUrl of the regex-based parser, assetExtraction.ts lines 343-349:
\* the reference itself is returned when it cannot be resolved
HrefOr(parsed, url) == IF parsed.ok THEN parsed.href ELSE url
resolveUrl(url, baseUrl) == HrefOr(URL(url, baseUrl), url)

(***************************************************************************)
(* Brand assets and the elements of a fetched page.  A page is the list of *)
(* its elements that the parsers look at, in document order, each with the *)
(* attribute values the selectors and patterns of the parsers read.        *)
(***************************************************************************)
\* BrandAsset, assetExtraction.ts lines 410-418; <<>> is an absent field
Asset(type, url, alt, source) ==
    [type |-> type, url |-> url, value |-> <<>>, name |-> <<>>, alt |-> alt, source |-> source]
ColorAsset(value, source) ==
    [type |-> "color", url |-> <<>>, value |-> value, name |-> <<>>, alt |-> <<>>, source |-> source]
FontAsset(name, url, source) ==
    [type |-> "font", url |-> url, value |-> <<>>, name |-> name, alt |-> <<>>, source |-> source]
NoAssets == [logos |-> <<>>, colors |-> <<>>, fonts |-> <<>>, illustrations |-> <<>>]

\* seq.flatMap(F), in order
RECURSIVE FlatMap(_, _, _)
FlatMap(F(_), seq, n) ==
    IF n > Len(seq) THEN <<>> ELSE F(seq[n]) \o FlatMap(F, seq, n + 1)

\* array.some(x => text.includes(x))
IncludesAny(text, words) == \E w \in words : Includes(text, w)

W_logo == <<"l", "o", "g", "o">>
W_brand == <<"b", "r", "a", "n", "d">>
W_mark == <<"m", "a", "r", "k">>
W_icon == <<"i", "c", "o", "n">>
W_favicon == <<"f", "a", "v", "i", "c", "o", "n">>
W_faviconIco == <<"f", "a", "v", "i", "c", "o", "n", ".", "i", "c", "o">>
W_svg == <<"s", "v", "g">>
A_Favicon == <<"F", "a", "v", "i", "c", "o", "n">>
A_DefaultFavicon == <<"D", "e", "f", "a", "u", "l", "t", " ", "f", "a", "v", "i", "c", "o", "n">>
A_SocialLogo == <<"S", "o", "c", "i", "a", "l", " ", "m", "e", "d", "i", "a", " ", "l", "o", "g", "o">>
A_SocialImage == <<"S", "o", "c", "i", "a", "l", " ", "m", "e", "d", "i", "a", " ", "i", "m", "a", "g", "e">>

\* isLikelyLogo, secureHtmlParser.ts lines 573-577
isLikelyLogo(src, alt, className, id) ==
    IncludesAny(toLowerCase(src \o <<" ">> \o alt \o <<" ">> \o className \o <<" ">> \o id),
                {W_logo, W_brand, W_mark, W_icon})

\* extractLogosSecurely, lines 492-568: the icon links, then the images
\* (pages hold no inline svg element)
IconLinkLogo(base, el) ==
    IF el.kind = "icon" /\ el.ref # <<>> /\ URL(el.ref, base).ok /\ IsHttp(URL(el.ref, base))
    THEN <<Asset("logo", URL(el.ref, base).href, A_Favicon, "link")>>
    ELSE <<>>

ImageLogo(base, el) ==
    IF /\ el.kind = "img" /\ el.ref # <<>>
       /\ URL(el.ref, base).ok /\ IsHttp(URL(el.ref, base))
       /\ isLikelyLogo(el.ref, el.alt, el.class, el.id)
    THEN <<Asset("logo", URL(el.ref, base).href, el.alt, "html")>>
    ELSE <<>>

extractLogosSecurely(page, baseUrl) ==
    LET icon(el) == IconLinkLogo(baseUrl, el)
        image(el) == ImageLogo(baseUrl, el)
    IN FlatMap(icon, page, 1) \o FlatMap(image, page, 1)

\* extractIllustrationsSecurely, lines 755-795: isLikelyLogo is called
\* without the id (pages hold no background image)
ImageIllustration(base, el) ==
    IF /\ el.kind = "img" /\ el.ref # <<>>
       /\ URL(el.ref, base).ok /\ IsHttp(URL(el.ref, base))
       /\ ~isLikelyLogo(el.ref, el.alt, el.class, <<>>)
    THEN <<Asset("illustration", URL(el.ref, base).href, el.alt, "html")>>
    ELSE <<>>

extractIllustrationsSecurely(page, baseUrl) ==
    LET image(el) == ImageIllustration(baseUrl, el)
    IN FlatMap(image, page, 1)

\* faulty variant of hasFavicon: no favicon is ever seen
hasFaviconNever(logos) == FALSE

\* parseHtmlSecurely, lines 444-446: a logo found so far has "favicon" in
\* its URL
hasFavicon(logos) ==
    \E i \in 1..Len(logos) :
        Includes(logos[i].url, W_faviconIco) \/ Includes(logos[i].url, W_favicon)

\* faulty variant of WithFallbackFavicon: no fallback is added
WithoutFallbackFavicon(logos, baseUrl) == logos

\* parseHtmlSecurely, lines 447-459: the fallback favicon
WithFallbackFavicon(logos, baseUrl) ==
    IF ~hasFavicon(logos) /\ URL(<<"/", "f", "a", "v", "i", "c", "o", "n", ".", "i", "c", "o">>, baseUrl).ok
    THEN Append(logos, Asset("logo", URL(<<"/", "f", "a", "v", "i", "c", "o", "n", ".", "i", "c", "o">>, baseUrl).href, A_DefaultFavicon, "html"))
    ELSE logos

(***************************************************************************)
(* deduplicateAssets and its helpers, secureHtmlParser.ts lines 1174-1306. *)
(***************************************************************************)
\* a JavaScript number: NaN, or an integer
NaN == [nan |-> TRUE, n |-> 0]
Num(n) == [nan |-> FALSE, n |-> n]
Times(a, b) == IF a.nan \/ b.nan THEN NaN ELSE Num(a.n * b.n)
Minus(a, b) == IF a.nan \/ b.nan THEN NaN ELSE Num(a.n - b.n)
\* a || b: NaN and 0 are falsy
OrElse(a, b) == IF a.nan \/ a.n = 0 THEN b ELSE a
\* a !== b: NaN differs from everything, itself included
StrictNotEqual(a, b) == a.nan \/ b.nan \/ a.n # b.n
\* parseInt of a capture group; an absent group (<<>>) gives NaN
parseIntOrNaN(s) == IF s = <<>> THEN NaN ELSE Num(parseInt(s))

IsDigit(c) == \E n \in 1..10 : c = DigitChars[n]

\* the end of the digit run \d* that starts at position i
RECURSIVE SkipDigits(_, _)
SkipDigits(s, i) ==
    IF i <= Len(s) /\ IsDigit(s[i]) THEN SkipDigits(s, i + 1) ELSE i

\* .replace(/[-_\.]/g, ''), line 1217
RemoveSeparators(s) == SelectSeq(s, LAMBDA c : c \notin {"-", "_", "."})

\* .replace(/\d+x?\d*/g, ''), line 1218
SizeEnd(s, i) ==
    LET j == SkipDigits(s, i)
    IN IF j <= Len(s) /\ s[j] = "x" THEN SkipDigits(s, j + 1) ELSE j

RECURSIVE RemoveSizes(_, _)
RemoveSizes(s, i) ==
    IF i > Len(s) THEN <<>>
    ELSE IF IsDigit(s[i]) THEN RemoveSizes(s, SizeEnd(s, i))
    ELSE <<s[i]>> \o RemoveSizes(s, i + 1)

\* .replace(/android|apple|ms|favicon|touch|icon/gi, ''), line 1219: the
\* alternatives are tried in this order at every position
PrefixWords == <<<<"a", "n", "d", "r", "o", "i", "d">>, <<"a", "p", "p", "l", "e">>, <<"m", "s">>, <<"f", "a", "v", "i", "c", "o", "n">>, <<"t", "o", "u", "c", "h">>, <<"i", "c", "o", "n">>>>

WordAt(s, i) ==
    IF \E k \in 1..Len(PrefixWords) : MatchLit(s, i, PrefixWords[k])
    THEN Len(PrefixWords[Least({k \in 1..Len(PrefixWords) : MatchLit(s, i, PrefixWords[k])})])
    ELSE 0

RECURSIVE RemovePrefixWords(_, _)
RemovePrefixWords(s, i) ==
    IF i > Len(s) THEN <<>>
    ELSE IF WordAt(s, i) > 0 THEN RemovePrefixWords(s, i + WordAt(s, i))
    ELSE <<s[i]>> \o RemovePrefixWords(s, i + 1)

\* url.pathname.split('/').pop() || '', line 1213
Filename(pathname) == SubSeq(pathname, LastIndexOf(pathname, "/") + 1, Len(pathname))

normalizedFilename(filename) ==
    toLowerCase(RemovePrefixWords(RemoveSizes(RemoveSeparators(filename), 1), 1))

\* similarityKey, lines 1210-1231: the URL of a logo is parsed again; the
\* catch branch gives the logo a key of its own
KeyOfParsed(parsed, url) ==
    IF parsed.ok
    THEN parsed.hostname \o <<":">> \o normalizedFilename(Filename(parsed.pathname))
    ELSE <<"i", "n", "v", "a", "l", "i", "d", ":">> \o url
similarityKey(url) == KeyOfParsed(ParseAbsolute(url), url)

\* the keys in the order in which groups.set first sees them (a Map keeps
\* insertion order), and the members of a group in input order
AddKey(before, url, key) ==
    IF url = <<>> \/ \E k \in 1..Len(before) : before[k] = key
    THEN before
    ELSE Append(before, key)
RECURSIVE GroupKeys(_, _)
GroupKeys(logos, n) ==
    IF n = 0 THEN <<>>
    ELSE AddKey(GroupKeys(logos, n - 1), logos[n].url, similarityKey(logos[n].url))

GroupOf(logos, key) ==
    SelectSeq(logos, LAMBDA logo : logo.url # <<>> /\ similarityKey(logo.url) = key)

\* url.match(/(\d+)x?(\d+)?/), lines 1247-1248: the first digit run of the
\* whole URL, and the digits after an x that follows it
NoMatch == [found |-> FALSE, m1 |-> <<>>, m2 |-> <<>>]
\* the first digit run is url[i..j-1]
SizeGroups(url, i, j) ==
    [found |-> TRUE,
     m1 |-> SubSeq(url, i, j - 1),
     m2 |-> IF j <= Len(url) /\ url[j] = "x"
            THEN SubSeq(url, j + 1, SkipDigits(url, j + 1) - 1)
            ELSE <<>>]
SizeMatchAt(url, i) == SizeGroups(url, i, SkipDigits(url, i))
SizeMatch(url) ==
    IF \A i \in 1..Len(url) : ~IsDigit(url[i]) THEN NoMatch
    ELSE SizeMatchAt(url, Least({k \in 1..Len(url) : IsDigit(url[k])}))

aSize(m) == Times(parseIntOrNaN(m.m1), OrElse(parseIntOrNaN(m.m2), parseIntOrNaN(m.m1)))
\* line 1252 falls back to the second group again, not to the first
bSize(m) == Times(parseIntOrNaN(m.m1), OrElse(parseIntOrNaN(m.m2), parseIntOrNaN(m.m2)))

IsSvg(url) == Includes(url, <<".", "s", "v", "g">>) \/ Includes(url, W_svg)
HasAlt(alt) == alt # <<>> /\ Len(alt) > 3 /\ ~Includes(toLowerCase(alt), W_favicon)

\* the comparator handed to sort, lines 1245-1274
\* lines 1262-1273: SVG first, then a meaningful alt text
CompareFormat(aSvg, bSvg, aAlt, bAlt) ==
    IF aSvg /\ ~bSvg THEN Num(-1)
    ELSE IF ~aSvg /\ bSvg THEN Num(1)
    ELSE IF aAlt /\ ~bAlt THEN Num(-1)
    ELSE IF ~aAlt /\ bAlt THEN Num(1)
    ELSE Num(0)

\* lines 1254-1256: the sizes decide when they differ
CompareSizes(sizeA, sizeB, rest) ==
    IF StrictNotEqual(sizeA, sizeB) THEN Minus(sizeB, sizeA) ELSE rest

\* lines 1247-1260
CompareMatches(aSizeMatch, bSizeMatch, rest) ==
    IF aSizeMatch.found /\ bSizeMatch.found
    THEN CompareSizes(aSize(aSizeMatch), bSize(bSizeMatch), rest)
    ELSE IF aSizeMatch.found /\ ~bSizeMatch.found THEN Num(-1)
    ELSE IF ~aSizeMatch.found /\ bSizeMatch.found THEN Num(1)
    ELSE rest

compareLogos(a, b) ==
    CompareMatches(SizeMatch(a.url), SizeMatch(b.url),
                   CompareFormat(IsSvg(a.url), IsSvg(b.url), HasAlt(a.alt), HasAlt(b.alt)))

\* Array.prototype.sort, line 1245.  The language turns a NaN from the
\* comparator into +0; for a comparator that is not a consistent order the
\* result depends on the engine.  Two engines are modelled: V8 (find the
\* leading run, reverse it when descending, then binary insertion with the
\* new element as first argument) and a linear insertion sort that passes
\* the earlier element first.
Engines == {"v8", "insertion"}
ToOrder(c) == IF c.nan THEN 0 ELSE c.n
Order(a, b) == ToOrder(compareLogos(a, b))

Reverse(seq) == [i \in 1..Len(seq) |-> seq[Len(seq) + 1 - i]]
InsertAt(seq, pos, x) == SubSeq(seq, 1, pos) \o <<x>> \o SubSeq(seq, pos + 1, Len(seq))

RECURSIVE RunLength(_, _, _)
RunLength(arr, idx, isDescending) ==
    IF idx > Len(arr) THEN idx - 1
    ELSE IF isDescending # (Order(arr[idx], arr[idx - 1]) < 0) THEN idx - 1
    ELSE RunLength(arr, idx + 1, isDescending)

RECURSIVE BinaryPosition(_, _, _, _)
BinaryPosition(sorted, pivot, left, right) ==
    IF left >= right THEN left
    ELSE LET mid == left + (right - left) \div 2
         IN IF Order(pivot, sorted[mid + 1]) < 0
            THEN BinaryPosition(sorted, pivot, left, mid)
            ELSE BinaryPosition(sorted, pivot, mid + 1, right)

RECURSIVE LinearPosition(_, _, _)
LinearPosition(sorted, x, j) ==
    IF j > 0 /\ Order(sorted[j], x) > 0 THEN LinearPosition(sorted, x, j - 1) ELSE j

RECURSIVE InsertionSort(_, _, _, _)
InsertionSort(engine, sorted, arr, start) ==
    IF start > Len(arr) THEN sorted
    ELSE LET pos == IF engine = "v8"
                    THEN BinaryPosition(sorted, arr[start], 0, Len(sorted))
                    ELSE LinearPosition(sorted, arr[start], Len(sorted))
         IN InsertionSort(engine, InsertAt(sorted, pos, arr[start]), arr, start + 1)

\* the leading run of length run, ascending, and the rest inserted into it
SortAfterRun(engine, arr, isDescending, run) ==
    InsertionSort(engine,
                  IF isDescending THEN Reverse(SubSeq(arr, 1, run)) ELSE SubSeq(arr, 1, run),
                  arr, run + 1)

SortFromRun(engine, arr, isDescending) ==
    SortAfterRun(engine, arr, isDescending, RunLength(arr, 3, isDescending))

sort(engine, arr) ==
    IF Len(arr) < 2 THEN arr
    ELSE IF engine = "v8" THEN SortFromRun(engine, arr, Order(arr[2], arr[1]) < 0)
    ELSE InsertionSort(engine, <<arr[1]>>, arr, 2)

\* deduplicateLogos, lines 1204-1280: the first element of every sorted group
BestOfGroups(engine, logos, keys) ==
    [k \in 1..Len(keys) |-> sort(engine, GroupOf(logos, keys[k]))[1]]

deduplicateLogos(engine, logos) == BestOfGroups(engine, logos, GroupKeys(logos, Len(logos)))

\* the filter of deduplicateByUrl, deduplicateByValue and deduplicateByName:
\* an element whose field is absent is always kept
RECURSIVE FilterSeen(_, _, _)
FilterSeen(field(_), assets, n) ==
    IF n = 0 THEN <<>>
    ELSE IF field(assets[n]) # <<>> /\ \E k \in 1..(n - 1) : field(assets[k]) = field(assets[n])
         THEN FilterSeen(field, assets, n - 1)
         ELSE Append(FilterSeen(field, assets, n - 1), assets[n])

deduplicateByUrl(engine, assets) ==
    LET url(a) == a.url
    IN IF Len(assets) = 0 THEN assets
       ELSE IF assets[1].type = "logo" THEN deduplicateLogos(engine, assets)
       ELSE FilterSeen(url, assets, Len(assets))

deduplicateByValue(assets) ==
    LET value(a) == a.value
    IN FilterSeen(value, assets, Len(assets))

deduplicateByName(assets) ==
    LET name(a) == a.name
    IN FilterSeen(name, assets, Len(assets))

deduplicateAssets(engine, assets) ==
    [logos |-> deduplicateByUrl(engine, assets.logos),
     colors |-> deduplicateByValue(assets.colors),
     fonts |-> deduplicateByName(assets.fonts),
     illustrations |-> deduplicateByUrl(engine, assets.illustrations)]

(***************************************************************************)
(* Colors, secureHtmlParser.ts lines 583-666 and 1012-1081.  The texts of  *)
(* the pages hold hex and rgb() literals only, so the rgba() and hsl()     *)
(* patterns and the custom-property pass never match and are left out.     *)
(***************************************************************************)
HexDigitChars == <<"0", "1", "2", "3", "4", "5", "6", "7", "8", "9", "a", "b", "c", "d", "e", "f">>
IsHexDigit(c) == \E n \in 1..16 : HexDigitChars[n] = Lower(c)

\* str.trim()
Trim(str) ==
    LET solid == {i \in 1..Len(str) : ~IsSpace(str[i])}
    IN IF solid = {} THEN <<>>
       ELSE SubSeq(str, Least(solid), CHOOSE i \in solid : \A j \in solid : j <= i)

\* the end (exclusive) of a match of /#[0-9a-f]{6}|#[0-9a-f]{3}/i at i, or 0
MatchHexColor(text, i) ==
    LET run(n) == i + n <= Len(text) /\ \A k \in 1..n : IsHexDigit(text[i + k])
    IN IF text[i] # "#" THEN 0
       ELSE IF run(6) THEN i + 7
       ELSE IF run(3) THEN i + 4
       ELSE 0

\* /rgb\(\s*(\d+)\s*,\s*(\d+)\s*,\s*(\d+)\s*\)/i at i: the end (exclusive)
\* and the three groups
NoRgb == [end |-> 0, r |-> <<>>, g |-> <<>>, b |-> <<>>]
\* \s*(\d+)\s* from a place on: where the digits start and stop, and the
\* place of the delimiter after them
Group(text, start, stop) == [start |-> start, stop |-> stop, delim |-> SkipSpaces(text, stop)]
GroupFrom(text, start) == Group(text, start, SkipDigits(text, start))
RgbGroup(text, from) == GroupFrom(text, SkipSpaces(text, from))
Delimited(text, grp, c) ==
    grp.stop > grp.start /\ grp.delim <= Len(text) /\ text[grp.delim] = c

MatchBlue(text, r, g, b) ==
    IF Delimited(text, b, ")")
    THEN [end |-> b.delim + 1, r |-> SubSeq(text, r.start, r.stop - 1),
          g |-> SubSeq(text, g.start, g.stop - 1), b |-> SubSeq(text, b.start, b.stop - 1)]
    ELSE NoRgb
MatchGreen(text, r, g) ==
    IF Delimited(text, g, ",") THEN MatchBlue(text, r, g, RgbGroup(text, g.delim + 1)) ELSE NoRgb
MatchRed(text, r) ==
    IF Delimited(text, r, ",") THEN MatchGreen(text, r, RgbGroup(text, r.delim + 1)) ELSE NoRgb
MatchRgb(text, i) ==
    IF MatchLit(text, i, <<"r", "g", "b", "(">>) THEN MatchRed(text, RgbGroup(text, i + 4))
    ELSE NoRgb

MatchRgbColor(text, i) == MatchRgb(text, i).end

\* text.match(pattern) with flag g: the matches from left to right, each
\* search resuming where the previous match ended
RECURSIVE Matches(_, _, _)
Matches(M(_, _), text, i) ==
    LET at == {j \in i..Len(text) : M(text, j) > 0}
    IN IF at = {} THEN <<>>
       ELSE <<SubSeq(text, Least(at), M(text, Least(at)) - 1)>>
            \o Matches(M, text, M(text, Least(at)))

\* n.toString(16).padStart(2, '0')
RECURSIVE toString16(_)
toString16(n) ==
    IF n < 16 THEN <<HexDigitChars[n + 1]>>
    ELSE toString16(n \div 16) \o <<HexDigitChars[(n % 16) + 1]>>
\* faulty variant of padStart2: nothing is padded
padStart2None(str) == str
padStart2(str) == IF Len(str) < 2 THEN <<"0">> \o str ELSE str

\* normalizeColor, lines 641-666
HexOfRgb(rgbMatch) ==
    <<"#">> \o padStart2(toString16(parseInt(rgbMatch.r)))
           \o padStart2(toString16(parseInt(rgbMatch.g)))
           \o padStart2(toString16(parseInt(rgbMatch.b)))
\* lines 654-661: at holds the places where the rgb() pattern matches
NormalizeRgb(trimmed, at) ==
    IF at = {} THEN trimmed ELSE HexOfRgb(MatchRgb(trimmed, Least(at)))
NormalizeTrimmed(trimmed) ==
    IF StartsWith(trimmed, <<"#">>)
    THEN IF Len(trimmed) = 4
         THEN <<"#", trimmed[2], trimmed[2], trimmed[3], trimmed[3], trimmed[4], trimmed[4]>>
         ELSE trimmed
    ELSE IF StartsWith(trimmed, <<"r", "g", "b", "(">>)
    THEN NormalizeRgb(trimmed, {i \in 1..Len(trimmed) : MatchRgb(trimmed, i).end > 0})
    ELSE trimmed
normalizeColor(color) == NormalizeTrimmed(toLowerCase(Trim(color)))

\* the values of the colors pushed so far are the members of colorSet
HasValue(colors, value) == \E k \in 1..Len(colors) : colors[k].value = value

AddColor(colors, normalizedColor) ==
    IF normalizedColor # <<>> /\ ~HasValue(colors, normalizedColor)
    THEN Append(colors, ColorAsset(normalizedColor, "css"))
    ELSE colors
RECURSIVE AddColors(_, _, _)
AddColors(colors, matches, n) ==
    IF n > Len(matches) THEN colors
    ELSE AddColors(AddColor(colors, normalizeColor(matches[n])), matches, n + 1)

\* extractColorsFromText, lines 614-636: pattern by pattern
extractColorsFromText(text, colors) ==
    AddColors(AddColors(colors, Matches(MatchHexColor, text, 1), 1),
              Matches(MatchRgbColor, text, 1), 1)

\* extractColorsFromCssContent, lines 1012-1081, with a color set of its own
extractColorsFromCssContent(cssContent) == extractColorsFromText(cssContent, <<>>)

RECURSIVE AddNewColors(_, _, _)
AddNewColors(colors, cssColors, n) ==
    IF n > Len(cssColors) THEN colors
    ELSE AddNewColors(IF HasValue(colors, cssColors[n].value) THEN colors
                      ELSE Append(colors, cssColors[n]),
                      cssColors, n + 1)

\* extractColorsSecurely, lines 583-612: the style elements (pages hold no
\* style attribute), then the whole document
RECURSIVE StyleColors(_, _, _)
StyleColors(page, n, colors) ==
    IF n > Len(page) THEN colors
    ELSE IF page[n].kind = "style"
    THEN StyleColors(page, n + 1,
                     AddNewColors(extractColorsFromText(page[n].css, colors),
                                  extractColorsFromCssContent(page[n].css), 1))
    ELSE StyleColors(page, n + 1, colors)

RECURSIVE Html(_, _)
Html(page, n) == IF n > Len(page) THEN <<>> ELSE page[n].html \o Html(page, n + 1)

extractColorsSecurely(page) ==
    extractColorsFromText(Html(page, 1), StyleColors(page, 1, <<>>))

\* extractColors, assetExtraction.ts lines 176-204
extractColors(html) == extractColorsFromText(html, <<>>)

(***************************************************************************)
(* Fonts, secureHtmlParser.ts lines 671-750 and 1086-1169.                 *)
(***************************************************************************)
\* str.split(sep) for a separator of one character
RECURSIVE Split(_, _)
Split(str, sep) ==
    IF IndexOf(str, sep) = 0 THEN <<str>>
    ELSE <<SubSeq(str, 1, IndexOf(str, sep) - 1)>>
         \o Split(SubSeq(str, IndexOf(str, sep) + 1, Len(str)), sep)

\* decodeURIComponent: a % that is not followed by two hexadecimal digits
\* throws URIError; of the escapes only %20 occurs in the pages
RECURSIVE DecodeFrom(_, _)
DecodeFrom(str, i) ==
    IF i > Len(str) THEN <<>>
    ELSE IF str[i] = "%" THEN <<" ">> \o DecodeFrom(str, i + 3)
    ELSE <<str[i]>> \o DecodeFrom(str, i + 1)

decodeURIComponent(str) ==
    IF \E i \in 1..Len(str) :
          str[i] = "%" /\ ~(i + 2 <= Len(str) /\ IsHexDigit(str[i + 1]) /\ IsHexDigit(str[i + 2]))
    THEN [ok |-> FALSE, text |-> <<>>]
    ELSE [ok |-> TRUE, text |-> DecodeFrom(str, 1)]

\* .replace(/\+/g, ' ')
PlusToSpace(str) == [i \in 1..Len(str) |-> IF str[i] = "+" THEN " " ELSE str[i]]

L_family == <<"f", "a", "m", "i", "l", "y", "=">>
L_googleFonts == <<"f", "o", "n", "t", "s", ".", "g", "o", "o", "g", "l", "e", "a", "p", "i", "s", ".", "c", "o", "m">>
L_gstatic == <<"f", "o", "n", "t", "s", ".", "g", "s", "t", "a", "t", "i", "c", ".", "c", "o", "m">>
L_typekit == <<"u", "s", "e", ".", "t", "y", "p", "e", "k", "i", "t", ".", "n", "e", "t">>
L_adobe == <<"u", "s", "e", ".", "a", "d", "o", "b", "e", ".", "c", "o", "m">>
L_fontFamily == <<"f", "o", "n", "t", "-", "f", "a", "m", "i", "l", "y">>
N_AdobeFonts == <<"A", "d", "o", "b", "e", " ", "F", "o", "n", "t", "s">>

\* the group of /family=([^...]*)/ in href: the text after the first
\* "family=" up to the first character of stops; found is FALSE without it
FamilyGroup(href, stops, ignoreCase) ==
    LET at == {i \in 1..Len(href) :
                  IF ignoreCase THEN MatchLit(href, i, L_family)
                  ELSE i + 6 <= Len(href) /\ SubSeq(href, i, i + 6) = L_family}
        from == Least(at) + 7
        stop == {j \in from..Len(href) : href[j] \in stops}
    IN IF at = {} THEN [found |-> FALSE, text |-> <<>>]
       ELSE [found |-> TRUE,
             text |-> SubSeq(href, from, IF stop = {} THEN Len(href) ELSE Least(stop) - 1)]

\* isGenericFont, lines 747-750: the lower-cased name is looked up in a list
\* that spells one of its members with capitals
genericFonts ==
    {<<"s", "e", "r", "i", "f">>, <<"s", "a", "n", "s", "-", "s", "e", "r", "i", "f">>, <<"m", "o", "n", "o", "s", "p", "a", "c", "e">>, <<"c", "u", "r", "s", "i", "v", "e">>, <<"f", "a", "n", "t", "a", "s", "y">>, <<"s", "y", "s", "t", "e", "m", "-", "u", "i">>,
     <<"-", "a", "p", "p", "l", "e", "-", "s", "y", "s", "t", "e", "m">>, <<"B", "l", "i", "n", "k", "M", "a", "c", "S", "y", "s", "t", "e", "m", "F", "o", "n", "t">>}
isGenericFont(fontName) == toLowerCase(fontName) \in genericFonts

HasName(fonts, name) == \E k \in 1..Len(fonts) : fonts[k].name = name

\* the families of one Google Fonts link, lines 685-697
RECURSIVE AddFamilies(_, _, _, _)
AddFamilies(fonts, families, n, url) ==
    IF n > Len(families) THEN fonts
    ELSE LET fontName == PlusToSpace(Split(families[n], ":")[1])
         IN AddFamilies(IF HasName(fonts, fontName) THEN fonts
                        ELSE Append(fonts, FontAsset(fontName, url, "link")),
                        families, n + 1, url)

GoogleLinkFonts(fonts, el, baseUrl) ==
    LET familyMatch == FamilyGroup(el.ref, {"&", "\"", "'"}, TRUE)
    IN IF /\ el.kind \in {"stylesheet", "icon"} /\ Includes(el.ref, L_googleFonts)
          /\ URL(el.ref, baseUrl).ok /\ IsHttp(URL(el.ref, baseUrl))
          /\ familyMatch.found /\ decodeURIComponent(familyMatch.text).ok
       THEN AddFamilies(fonts, Split(decodeURIComponent(familyMatch.text).text, "|"), 1,
                        URL(el.ref, baseUrl).href)
       ELSE fonts

\* css.match(/font-family\s*:\s*[^;}]+/gi): the end (exclusive) of a match
\* at i, or 0
ValueStart(css, i) == SkipSpaces(css, i + Len(L_fontFamily)) + 1
ValueEnd(css, from) ==
    LET stop == {j \in from..Len(css) : css[j] \in {";", "}"}}
    IN IF stop = {} THEN Len(css) + 1 ELSE Least(stop)

MatchFontFamily(css, i) ==
    LET colon == SkipSpaces(css, i + Len(L_fontFamily))
    IN IF /\ MatchLit(css, i, L_fontFamily)
          /\ colon <= Len(css) /\ css[colon] = ":"
          /\ ValueEnd(css, colon + 1) > colon + 1
       THEN ValueEnd(css, colon + 1)
       ELSE 0

\* match.replace(/font-family\s*:\s*/i, '').trim()
FamilyValue(match) == Trim(SubSeq(match, ValueStart(match, 1), Len(match)))

\* font.trim().replace(/['"]/g, '')
CleanFont(font) == SelectSeq(Trim(font), LAMBDA c : ~IsQuote(c))

RECURSIVE AddCssFonts(_, _, _)
AddCssFonts(fonts, fontsList, n) ==
    IF n > Len(fontsList) THEN fonts
    ELSE LET cleanFont == CleanFont(fontsList[n])
         IN AddCssFonts(IF ~isGenericFont(cleanFont) /\ ~HasName(fonts, cleanFont)
                        THEN Append(fonts, FontAsset(cleanFont, <<>>, "css"))
                        ELSE fonts,
                        fontsList, n + 1)

\* extractFontFamiliesFromCSS, lines 722-742
RECURSIVE AddDeclarations(_, _, _)
AddDeclarations(fonts, matches, n) ==
    IF n > Len(matches) THEN fonts
    ELSE AddDeclarations(AddCssFonts(fonts, Split(FamilyValue(matches[n]), ","), 1),
                         matches, n + 1)

extractFontFamiliesFromCSS(css, fonts) ==
    AddDeclarations(fonts, Matches(MatchFontFamily, css, 1), 1)

\* extractFontsSecurely, lines 671-720: the Google Fonts links, then the
\* style elements
RECURSIVE LinkFonts(_, _, _, _)
LinkFonts(page, n, fonts, baseUrl) ==
    IF n > Len(page) THEN fonts
    ELSE LinkFonts(page, n + 1, GoogleLinkFonts(fonts, page[n], baseUrl), baseUrl)

RECURSIVE StyleFonts(_, _, _)
StyleFonts(page, n, fonts) ==
    IF n > Len(page) THEN fonts
    ELSE StyleFonts(page, n + 1,
                    IF page[n].kind = "style" THEN extractFontFamiliesFromCSS(page[n].css, fonts)
                    ELSE fonts)

extractFontsSecurely(page, baseUrl) == StyleFonts(page, 1, LinkFonts(page, 1, <<>>, baseUrl))

(***************************************************************************)
(* The pages.  An element carries its markup (html) and the attribute      *)
(* values the selectors read: ref is href or src, content the content of a *)
(* meta element, css the text inside a style element.  The markup is well  *)
(* formed, so the patterns of the regex parser find the same attributes.   *)
(***************************************************************************)
MaxElems == 3

E_icon32 ==
    [kind |-> "icon", ref |-> <<"/", "i", "c", "o", "n", "-", "3", "2", ".", "p", "n", "g">>, alt |-> <<>>, class |-> <<>>, id |-> <<>>,
     css |-> <<>>, content |-> <<>>,
     html |-> <<"<", "l", "i", "n", "k", " ", "r", "e", "l", "=", "\"", "i", "c", "o", "n", "\"", " ", "h", "r", "e", "f", "=", "\"", "/", "i", "c", "o", "n", "-", "3", "2", ".", "p", "n", "g", "\"", ">">>]

E_icon192 ==
    [kind |-> "icon", ref |-> <<"/", "i", "c", "o", "n", "-", "1", "9", "2", ".", "p", "n", "g">>, alt |-> <<>>, class |-> <<>>, id |-> <<>>,
     css |-> <<>>, content |-> <<>>,
     html |-> <<"<", "l", "i", "n", "k", " ", "r", "e", "l", "=", "\"", "i", "c", "o", "n", "\"", " ", "h", "r", "e", "f", "=", "\"", "/", "i", "c", "o", "n", "-", "1", "9", "2", ".", "p", "n", "g", "\"", ">">>]

E_favicon ==
    [kind |-> "icon", ref |-> <<"/", "f", "a", "v", "i", "c", "o", "n", ".", "i", "c", "o">>, alt |-> <<>>, class |-> <<>>, id |-> <<>>,
     css |-> <<>>, content |-> <<>>,
     html |-> <<"<", "l", "i", "n", "k", " ", "r", "e", "l", "=", "\"", "i", "c", "o", "n", "\"", " ", "h", "r", "e", "f", "=", "\"", "/", "f", "a", "v", "i", "c", "o", "n", ".", "i", "c", "o", "\"", ">">>]

E_brandImg ==
    [kind |-> "img", ref |-> <<"h", "e", "r", "o", ".", "p", "n", "g">>, alt |-> <<>>, class |-> <<>>, id |-> <<"b", "r", "a", "n", "d">>,
     css |-> <<>>, content |-> <<>>,
     html |-> <<"<", "i", "m", "g", " ", "s", "r", "c", "=", "\"", "h", "e", "r", "o", ".", "p", "n", "g", "\"", " ", "i", "d", "=", "\"", "b", "r", "a", "n", "d", "\"", ">">>]

E_heroImg ==
    [kind |-> "img", ref |-> <<"h", "e", "r", "o", ".", "p", "n", "g">>, alt |-> <<>>, class |-> <<>>, id |-> <<>>,
     css |-> <<>>, content |-> <<>>,
     html |-> <<"<", "i", "m", "g", " ", "s", "r", "c", "=", "\"", "h", "e", "r", "o", ".", "p", "n", "g", "\"", ">">>]

E_badImg ==
    [kind |-> "img", ref |-> <<"/", "/">>, alt |-> <<>>, class |-> <<>>, id |-> <<>>,
     css |-> <<>>, content |-> <<>>,
     html |-> <<"<", "i", "m", "g", " ", "s", "r", "c", "=", "\"", "/", "/", "\"", ">">>]

E_badFontLink ==
    [kind |-> "stylesheet", ref |-> <<"h", "t", "t", "p", "s", ":", "/", "/", "f", "o", "n", "t", "s", ".", "g", "o", "o", "g", "l", "e", "a", "p", "i", "s", ".", "c", "o", "m", "/", "c", "s", "s", "?", "f", "a", "m", "i", "l", "y", "=", "1", "0", "0", "%">>, alt |-> <<>>, class |-> <<>>, id |-> <<>>,
     css |-> <<>>, content |-> <<>>,
     html |-> <<"<", "l", "i", "n", "k", " ", "r", "e", "l", "=", "\"", "s", "t", "y", "l", "e", "s", "h", "e", "e", "t", "\"", " ", "h", "r", "e", "f", "=", "\"", "h", "t", "t", "p", "s", ":", "/", "/", "f", "o", "n", "t", "s", ".", "g", "o", "o", "g", "l", "e", "a", "p", "i", "s", ".", "c", "o", "m", "/", "c", "s", "s", "?", "f", "a", "m", "i", "l", "y", "=", "1", "0", "0", "%", "\"", ">">>]

E_cssLink ==
    [kind |-> "stylesheet", ref |-> <<"/", "s", ".", "c", "s", "s">>, alt |-> <<>>, class |-> <<>>, id |-> <<>>,
     css |-> <<>>, content |-> <<>>,
     html |-> <<"<", "l", "i", "n", "k", " ", "r", "e", "l", "=", "\"", "s", "t", "y", "l", "e", "s", "h", "e", "e", "t", "\"", " ", "h", "r", "e", "f", "=", "\"", "/", "s", ".", "c", "s", "s", "\"", ">">>]

E_style ==
    [kind |-> "style", ref |-> <<>>, alt |-> <<>>, class |-> <<>>, id |-> <<>>,
     css |-> <<"b", "{", "c", "o", "l", "o", "r", ":", "#", "F", "F", "F", ";", "f", "o", "n", "t", "-", "f", "a", "m", "i", "l", "y", ":", "A", "r", "i", "a", "l", ",", "B", "l", "i", "n", "k", "M", "a", "c", "S", "y", "s", "t", "e", "m", "F", "o", "n", "t", ",", "s", "e", "r", "i", "f", "}">>, content |-> <<>>,
     html |-> <<"<", "s", "t", "y", "l", "e", ">", "b", "{", "c", "o", "l", "o", "r", ":", "#", "F", "F", "F", ";", "f", "o", "n", "t", "-", "f", "a", "m", "i", "l", "y", ":", "A", "r", "i", "a", "l", ",", "B", "l", "i", "n", "k", "M", "a", "c", "S", "y", "s", "t", "e", "m", "F", "o", "n", "t", ",", "s", "e", "r", "i", "f", "}", "<", "/", "s", "t", "y", "l", "e", ">">>]

E_themeColor ==
    [kind |-> "theme-color", ref |-> <<>>, alt |-> <<>>, class |-> <<>>, id |-> <<>>,
     css |-> <<>>, content |-> <<"r", "g", "b", "(", "2", "5", "5", ",", " ", "2", "5", "5", ",", " ", "2", "5", "5", ")">>,
     html |-> <<"<", "m", "e", "t", "a", " ", "n", "a", "m", "e", "=", "\"", "t", "h", "e", "m", "e", "-", "c", "o", "l", "o", "r", "\"", " ", "c", "o", "n", "t", "e", "n", "t", "=", "\"", "r", "g", "b", "(", "2", "5", "5", ",", " ", "2", "5", "5", ",", " ", "2", "5", "5", ")", "\"", ">">>]

E_ogImage ==
    [kind |-> "og:image", ref |-> <<>>, alt |-> <<>>, class |-> <<>>, id |-> <<>>,
     css |-> <<>>, content |-> <<"h", "e", "r", "o", ".", "p", "n", "g">>,
     html |-> <<"<", "m", "e", "t", "a", " ", "p", "r", "o", "p", "e", "r", "t", "y", "=", "\"", "o", "g", ":", "i", "m", "a", "g", "e", "\"", " ", "c", "o", "n", "t", "e", "n", "t", "=", "\"", "h", "e", "r", "o", ".", "p", "n", "g", "\"", ">">>]

E_text ==
    [kind |-> "text", ref |-> <<>>, alt |-> <<>>, class |-> <<>>, id |-> <<>>,
     css |-> <<>>, content |-> <<>>,
     html |-> <<"N", "o", "t", " ", "v", "a", "l", "i", "d", " ", "H", "T", "M", "L", " ", "c", "o", "n", "t", "e", "n", "t">>]

Elements ==
    {E_icon32, E_icon192, E_favicon, E_brandImg, E_heroImg, E_badImg, E_badFontLink, E_cssLink, E_style, E_themeColor, E_ogImage, E_text}

Pages == UNION {[1..n -> Elements] : n \in 0..MaxElems}

\* the addresses extractAssets is called with
U_page == <<"h", "t", "t", "p", "s", ":", "/", "/", "a", ".", "i", "o", "/", "p", "/", "x">>
U_bare == <<"a", ".", "i", "o">>
Urls == {U_page, U_bare}

\* the bodies the proxy returns for a stylesheet
CssContents == {<<"a", "{", "c", "o", "l", "o", "r", ":", "#", "f", "f", "f", ";", "f", "o", "n", "t", "-", "f", "a", "m", "i", "l", "y", ":", "A", "r", "i", "a", "l", ",", "-", "a", "p", "p", "l", "e", "-", "s", "y", "s", "t", "e", "m", ",", "s", "e", "r", "i", "f", "}">>}

(***************************************************************************)
(* extractAssetsFromMetaTags, secureHtmlParser.ts lines 822-899 (pages     *)
(* hold no mask-icon link).                                                *)
(***************************************************************************)
SocialImage(href, isLogo) ==
    Asset(IF isLogo THEN "logo" ELSE "illustration", href,
          IF isLogo THEN A_SocialLogo ELSE A_SocialImage, "html")
MetaImageAt(parsed) ==
    IF parsed.ok /\ IsHttp(parsed)
    THEN <<SocialImage(parsed.href,
                       IncludesAny(toLowerCase(parsed.pathname), {W_logo, W_icon, W_favicon}))>>
    ELSE <<>>
MetaImage(base, el) ==
    IF el.kind = "og:image" /\ el.content # <<>> THEN MetaImageAt(URL(el.content, base))
    ELSE <<>>

MetaColorOf(normalizedColor) ==
    IF normalizedColor # <<>> THEN <<ColorAsset(normalizedColor, "html")>> ELSE <<>>
MetaColor(el) ==
    IF el.kind = "theme-color" /\ el.content # <<>> THEN MetaColorOf(normalizeColor(el.content))
    ELSE <<>>

MetaAssets(images, colors) ==
    [logos |-> SelectSeq(images, LAMBDA a : a.type = "logo"),
     colors |-> colors,
     fonts |-> <<>>,
     illustrations |-> SelectSeq(images, LAMBDA a : a.type = "illustration")]
extractAssetsFromMetaTags(page, baseUrl) ==
    LET image(el) == MetaImage(baseUrl, el)
    IN MetaAssets(FlatMap(image, page, 1), FlatMap(MetaColor, page, 1))

(***************************************************************************)
(* extractAssetsFromCssLinks, lines 904-1007: the part that runs before    *)
(* the first fetch, and the processing of one fetched stylesheet.          *)
(***************************************************************************)
CssLink(base, el) ==
    IF /\ el.kind = "stylesheet" /\ el.ref # <<>>
       /\ URL(el.ref, base).ok /\ IsHttp(URL(el.ref, base))
    THEN <<URL(el.ref, base).href>>
    ELSE <<>>

cssLinks(page, baseUrl) ==
    LET link(el) == CssLink(baseUrl, el)
    IN FlatMap(link, page, 1)

IsFontService(cssUrl) == Includes(cssUrl, L_googleFonts) \/ Includes(cssUrl, L_gstatic)
fontMatch(cssUrl) == FamilyGroup(cssUrl, {"&", ":"}, FALSE)

\* line 934: decodeURIComponent is called outside any try block
CssLinksThrow(links) ==
    \E k \in 1..Len(links) :
        /\ IsFontService(links[k])
        /\ fontMatch(links[k]).found /\ fontMatch(links[k]).text # <<>>
        /\ ~decodeURIComponent(fontMatch(links[k]).text).ok

ServiceFont(cssUrl) ==
    (IF IsFontService(cssUrl) /\ fontMatch(cssUrl).found /\ fontMatch(cssUrl).text # <<>>
     THEN <<FontAsset(PlusToSpace(decodeURIComponent(fontMatch(cssUrl).text).text), cssUrl, "link")>>
     ELSE <<>>)
    \o (IF Includes(cssUrl, L_typekit) \/ Includes(cssUrl, L_adobe)
        THEN <<FontAsset(N_AdobeFonts, cssUrl, "link")>>
        ELSE <<>>)

\* cssLinks.filter(same hostname).slice(0, 2)
SameHost(a, b) == a.ok /\ b.ok /\ a.hostname = b.hostname
FirstTwo(seq) == SubSeq(seq, 1, IF Len(seq) < 2 THEN Len(seq) ELSE 2)
sameOriginCss(links, baseUrl) ==
    FirstTwo(SelectSeq(links, LAMBDA cssUrl :
                          SameHost(ParseAbsolute(cssUrl), ParseAbsolute(baseUrl))))

\* extractFontsFromCssContent, lines 1086-1169 (the stylesheets hold no font
\* shorthand and no !important)
cssKeywords ==
    {<<"s", "e", "r", "i", "f">>, <<"s", "a", "n", "s", "-", "s", "e", "r", "i", "f">>, <<"m", "o", "n", "o", "s", "p", "a", "c", "e">>, <<"c", "u", "r", "s", "i", "v", "e">>, <<"f", "a", "n", "t", "a", "s", "y">>, <<"s", "y", "s", "t", "e", "m", "-", "u", "i">>,
     <<"i", "n", "h", "e", "r", "i", "t">>, <<"i", "n", "i", "t", "i", "a", "l">>, <<"u", "n", "s", "e", "t">>}

RECURSIVE AddContentFonts(_, _, _)
AddContentFonts(fonts, fontNames, n) ==
    IF n > Len(fontNames) THEN fonts
    ELSE AddContentFonts(IF HasName(fonts, fontNames[n]) THEN fonts
                         ELSE Append(fonts, FontAsset(fontNames[n], <<>>, "css")),
                         fontNames, n + 1)

RECURSIVE AddContentDeclarations(_, _, _)
AddContentDeclarations(fonts, matches, n) ==
    IF n > Len(matches) THEN fonts
    ELSE LET names == [k \in 1..Len(Split(FamilyValue(matches[n]), ",")) |->
                          Trim(CleanFont(Split(FamilyValue(matches[n]), ",")[k]))]
             fontNames == SelectSeq(names, LAMBDA font :
                              font # <<>> /\ toLowerCase(font) \notin cssKeywords)
         IN AddContentDeclarations(AddContentFonts(fonts, fontNames, 1), matches, n + 1)

extractFontsFromCssContent(cssContent) ==
    AddContentDeclarations(<<>>, Matches(MatchFontFamily, cssContent, 1), 1)

(***************************************************************************)
(* parseHtmlForAssets, assetExtraction.ts lines 90-404: the regex parser.  *)
(***************************************************************************)
\* isLikelyLogo, assetExtraction.ts lines 167-171
isLikelyLogoRegex(src, alt, className) ==
    IncludesAny(toLowerCase(src \o <<" ">> \o alt \o <<" ">> \o className),
                {W_logo, W_brand, W_mark, W_icon})

RegexIconLogo(base, el) ==
    IF el.kind = "icon" /\ el.ref # <<>>
    THEN <<Asset("logo", resolveUrl(el.ref, base), A_Favicon, "link")>>
    ELSE <<>>

RegexImageLogo(base, el) ==
    IF el.kind = "img" /\ el.ref # <<>> /\ isLikelyLogoRegex(el.ref, el.alt, el.class)
    THEN <<Asset("logo", resolveUrl(el.ref, base), el.alt, "html")>>
    ELSE <<>>

extractLogos(page, baseUrl) ==
    LET icon(el) == RegexIconLogo(baseUrl, el)
        image(el) == RegexImageLogo(baseUrl, el)
    IN FlatMap(icon, page, 1) \o FlatMap(image, page, 1)

RegexImageIllustration(base, el) ==
    IF el.kind = "img" /\ el.ref # <<>> /\ ~isLikelyLogoRegex(el.ref, el.alt, el.class)
    THEN <<Asset("illustration", resolveUrl(el.ref, base), el.alt, "html")>>
    ELSE <<>>

extractIllustrations(page, baseUrl) ==
    LET image(el) == RegexImageIllustration(baseUrl, el)
    IN FlatMap(image, page, 1)

\* extractFonts, lines 239-284: decodeURIComponent is called outside any try
\* block, so a malformed family makes the whole parse throw
L_googleCss == <<"f", "o", "n", "t", "s", ".", "g", "o", "o", "g", "l", "e", "a", "p", "i", "s", ".", "c", "o", "m", "/", "c", "s", "s">>
GoogleCssMatch(el) ==
    IF FindLit(el.html, 1, L_googleCss) = 0 THEN [found |-> FALSE, text |-> <<>>]
    ELSE FamilyGroup(SubSeq(el.html, FindLit(el.html, 1, L_googleCss), Len(el.html)),
                     {"&", "\"", "'"}, TRUE)

extractFontsThrows(page) ==
    \E k \in 1..Len(page) :
        GoogleCssMatch(page[k]).found /\ ~decodeURIComponent(GoogleCssMatch(page[k]).text).ok

RECURSIVE RegexLinkFonts(_, _, _)
RegexLinkFonts(page, n, fonts) ==
    IF n > Len(page) THEN fonts
    ELSE RegexLinkFonts(page, n + 1,
            IF GoogleCssMatch(page[n]).found
            THEN AddFamilies(fonts,
                             Split(decodeURIComponent(GoogleCssMatch(page[n]).text).text, "|"),
                             1, <<>>)
            ELSE fonts)

extractFonts(page) ==
    extractFontFamiliesFromCSS(Html(page, 1), RegexLinkFonts(page, 1, <<>>))

\* deduplicateAssets, assetExtraction.ts lines 354-404
deduplicateAssetsRegex(assets) ==
    LET url(a) == a.url
    IN [logos |-> FilterSeen(url, assets.logos, Len(assets.logos)),
        colors |-> deduplicateByValue(assets.colors),
        fonts |-> deduplicateByName(assets.fonts),
        illustrations |-> FilterSeen(url, assets.illustrations, Len(assets.illustrations))]

parseHtmlForAssets(page, baseUrl) ==
    deduplicateAssetsRegex([logos |-> extractLogos(page, baseUrl),
                            colors |-> extractColors(Html(page, 1)),
                            fonts |-> extractFonts(page),
                            illustrations |-> extractIllustrations(page, baseUrl)])

(***************************************************************************)
(* parseHtmlSecurely, secureHtmlParser.ts lines 415-487.                   *)
(***************************************************************************)
validBaseUrl(baseUrl) == IF ParseAbsolute(baseUrl).ok THEN baseUrl ELSE S_example

\* lines 441-468: everything before the stylesheets are looked at
AssetsBeforeCss(page, baseUrl) ==
    [logos |-> WithFallbackFavicon(extractLogosSecurely(page, validBaseUrl(baseUrl)),
                                   validBaseUrl(baseUrl)),
     colors |-> extractColorsSecurely(page),
     fonts |-> extractFontsSecurely(page, validBaseUrl(baseUrl)),
     illustrations |-> extractIllustrationsSecurely(page, validBaseUrl(baseUrl))]

\* lines 471-480: the stylesheet and meta assets are pushed
AssetsAfterCss(assets, cssAssets, page, baseUrl) ==
    [logos |-> assets.logos \o extractAssetsFromMetaTags(page, validBaseUrl(baseUrl)).logos,
     colors |-> assets.colors \o cssAssets.colors
                \o extractAssetsFromMetaTags(page, validBaseUrl(baseUrl)).colors,
     fonts |-> assets.fonts \o cssAssets.fonts,
     illustrations |-> assets.illustrations
                       \o extractAssetsFromMetaTags(page, validBaseUrl(baseUrl)).illustrations]

\* normalizeUrl, assetExtraction.ts lines 442-450
normalizeUrl(url) ==
    IF \/ Len(url) >= 7 /\ SubSeq(url, 1, 7) = S_http
       \/ Len(url) >= 8 /\ SubSeq(url, 1, 8) = S_https
    THEN url
    ELSE S_https \o url

(***************************************************************************)
(* extractAssets, assetExtraction.ts lines 35-74 (regex parser) and        *)
(* 452-496 (secure parser): one action per await.                          *)
(***************************************************************************)
NoCall == [pc |-> "idle", parser |-> "secure", url |-> <<>>]
NoExtraction == [success |-> FALSE, hasAssets |-> FALSE, assets |-> NoAssets, how |-> "none"]
Failure(how) == [success |-> FALSE, hasAssets |-> FALSE, assets |-> NoAssets, how |-> how]
Success(assets, how) == [success |-> TRUE, hasAssets |-> TRUE, assets |-> assets, how |-> how]

\* the call up to its fetch
ExtractAssets(parser, url) ==
    /\ extraction.pc = "idle"
    /\ extraction' = [pc |-> "fetching", parser |-> parser,
                      url |-> IF parser = "secure" THEN normalizeUrl(url) ELSE url]
    /\ UNCHANGED <<jsEngine, fetched, found, fromCss, toFetch, extracted>>

\* the fetch rejects, or the response is not ok
PageFetchFails(how) ==
    /\ extraction.pc = "fetching"
    /\ extraction' = [extraction EXCEPT !.pc = "done"]
    /\ extracted' = Failure(how)
    /\ UNCHANGED <<jsEngine, fetched, found, fromCss, toFetch>>

\* the response is ok: the parser runs up to its first fetch of a stylesheet
\* (line 482: the result goes through deduplicateAssets)
PageFetchSettles(html) ==
    /\ extraction.pc = "fetching"
    /\ fetched' = html
    /\ UNCHANGED jsEngine
    /\ IF extraction.parser = "regex"
       THEN /\ extracted' = IF extractFontsThrows(html) THEN Failure("threw")
                            ELSE Success(parseHtmlForAssets(html, extraction.url), "returned")
            /\ extraction' = [extraction EXCEPT !.pc = "done"]
            /\ UNCHANGED <<found, fromCss, toFetch>>
       ELSE /\ found' = AssetsBeforeCss(html, extraction.url)
            /\ \E links \in {cssLinks(html, validBaseUrl(extraction.url))} :
                 IF CssLinksThrow(links)
                 THEN /\ extracted' = Success(found', "caught")
                      /\ extraction' = [extraction EXCEPT !.pc = "done"]
                      /\ UNCHANGED <<fromCss, toFetch>>
                 ELSE /\ fromCss' = [NoAssets EXCEPT !.fonts = FlatMap(ServiceFont, links, 1)]
                      /\ toFetch' = sameOriginCss(links, validBaseUrl(extraction.url))
                      /\ IF toFetch' = <<>>
                         THEN /\ \E all \in {AssetsAfterCss(found', fromCss', html, extraction.url)} :
                                   extracted' = Success(deduplicateAssets(jsEngine, all), "returned")
                              /\ extraction' = [extraction EXCEPT !.pc = "done"]
                         ELSE /\ extraction' = [extraction EXCEPT !.pc = "css"]
                              /\ UNCHANGED extracted

\* the proxy answers for the first stylesheet still to fetch: ok with a
\* body, or not (a failed fetch is skipped)
CssFetchSettles(ok, cssContent) ==
    /\ extraction.pc = "css"
    /\ fromCss' = IF ok
                  THEN [fromCss EXCEPT
                           !.colors = @ \o extractColorsFromCssContent(cssContent),
                           !.fonts = @ \o extractFontsFromCssContent(cssContent)]
                  ELSE fromCss
    /\ toFetch' = Tail(toFetch)
    /\ IF toFetch' = <<>>
       THEN /\ \E all \in {AssetsAfterCss(found, fromCss', fetched, extraction.url)} :
                 extracted' = Success(deduplicateAssets(jsEngine, all), "returned")
            /\ extraction' = [extraction EXCEPT !.pc = "done"]
       ELSE UNCHANGED <<extraction, extracted>>
    /\ UNCHANGED <<jsEngine, fetched, found>>

(***************************************************************************)
(* normalizeColor as a call of its own: the texts it is given.             *)
(***************************************************************************)
\* hex digits of either case, and the channel values around the places
\* where one or two base-16 digits are needed
HexSample3 == {"0", "9", "a", "F", "c"}
HexSample6 == {"0", "f", "A"}
Channels == {0, 7, 15, 16, 200, 255}

Hex3Text(d) == <<"#">> \o d
Hex6Text(d) == <<"#">> \o d
\* rgb(r,g,b) as it is written: tight, with spaces, or in capitals
RgbForms == {"tight", "spaced", "capitals"}
RgbText(form, r, g, b) ==
    IF form = "tight"
    THEN <<"r", "g", "b", "(">> \o toString(r) \o <<",">> \o toString(g) \o <<",">>
         \o toString(b) \o <<")">>
    ELSE IF form = "spaced"
    THEN <<"r", "g", "b", "(", " ">> \o toString(r) \o <<" ", ",", " ">> \o toString(g)
         \o <<" ", ",", " ">> \o toString(b) \o <<" ", ")">>
    ELSE <<"R", "G", "B", "(">> \o toString(r) \o <<",">> \o toString(g) \o <<",">>
         \o toString(b) \o <<")">>

ColorInputs ==
    {Hex3Text(d) : d \in [1..3 -> HexSample3]}
    \cup {Hex6Text(d) : d \in [1..6 -> HexSample6]}
    \cup {RgbText(form, r, g, b) : form \in RgbForms, r \in Channels, g \in Channels, b \in Channels}

NotNormalized == <<"?">>

\* normalizeColor(color), lines 641-666
NormalizeColor ==
    /\ colorOutput = NotNormalized
    /\ colorOutput' = normalizeColor(colorInput)
    /\ UNCHANGED colorInput

(***************************************************************************)
(* The in-memory limiter of the Express server (src/unnamed/part_013):     *)
(* two maps keyed by the client address; checkRateLimit is synchronous.    *)
(***************************************************************************)
MAX_REQUESTS_PER_HOUR == 100
TIME_WINDOW_MS == 60 * 60 * 1000
MaxAdmitted == 102   \* calls the server's checkRateLimit admits per behaviour

\* the addresses the server's limiter is called with; "" is the empty string
ServerIps == {"", "10.1.1.1"}
\* sampled values of Date.now(): an instant, one hour later, and the
\* millisecond after that
FirstInstant == 2 * TIME_WINDOW_MS
ServerInstants == {FirstInstant, FirstInstant + TIME_WINDOW_MS, FirstInstant + TIME_WINDOW_MS + 1}

\* Map.prototype.get(ip) || 0
GetOrZero(map, ip) == IF ip \in DOMAIN map THEN map[ip] ELSE 0
\* Map.prototype.set(ip, value)
MapSet(map, ip, value) == [k \in DOMAIN map \cup {ip} |-> IF k = ip THEN value ELSE map[k]]

\* faulty variant of WindowPassed: a request exactly one hour after the last
\* one already starts a new count
WindowPassedInclusive(at, lastRequest) == at - lastRequest >= TIME_WINDOW_MS

\* line 195: if (now - lastRequest > TIME_WINDOW_MS)
WindowPassed(at, lastRequest) == at - lastRequest > TIME_WINDOW_MS

NoServerResult == [limited |-> FALSE, remaining |-> -1, resetTime |-> 0, ip |-> "", at |-> 0]
ServerResult(limited, remaining, resetTime, ip) ==
    [limited |-> limited, remaining |-> remaining, resetTime |-> resetTime,
     ip |-> ip, at |-> wallClock]

\* the calls admitted so far
RECURSIVE AdmittedAmong(_)
AdmittedAmong(instants) ==
    IF instants = {} THEN 0
    ELSE LET s == CHOOSE x \in instants : TRUE
         IN admittedAt[s] + AdmittedAmong(instants \ {s})

\* Date.now() moves on
ServerTick(t) ==
    /\ t > wallClock
    /\ wallClock' = t
    /\ UNCHANGED <<requestCounts, lastRequestTimes, serverResult, admittedAt>>

\* checkRateLimit(req) of the server, lines 178-229, called with a string
CheckRateLimitServer(ip) ==
    /\ AdmittedAmong(ServerInstants) < MaxAdmitted
    /\ UNCHANGED wallClock
    /\ \E lastRequest \in {GetOrZero(lastRequestTimes, ip)},
          requestCount \in {GetOrZero(requestCounts, ip)} :
          IF ip = ""
          THEN /\ serverResult' = ServerResult(TRUE, 0, wallClock + TIME_WINDOW_MS, ip)
               /\ UNCHANGED <<requestCounts, lastRequestTimes, admittedAt>>
          ELSE IF WindowPassed(wallClock, lastRequest)
          THEN /\ requestCounts' = MapSet(requestCounts, ip, 1)
               /\ lastRequestTimes' = MapSet(lastRequestTimes, ip, wallClock)
               /\ serverResult' = ServerResult(FALSE, MAX_REQUESTS_PER_HOUR - 1,
                                               wallClock + TIME_WINDOW_MS, ip)
               /\ admittedAt' = [admittedAt EXCEPT ![wallClock] = @ + 1]
          ELSE IF requestCount >= MAX_REQUESTS_PER_HOUR
          THEN /\ serverResult' = ServerResult(TRUE, 0, lastRequest + TIME_WINDOW_MS, ip)
               /\ UNCHANGED <<requestCounts, lastRequestTimes, admittedAt>>
          ELSE /\ requestCounts' = MapSet(requestCounts, ip, requestCount + 1)
               /\ lastRequestTimes' = MapSet(lastRequestTimes, ip, wallClock)
               /\ serverResult' = ServerResult(FALSE, MAX_REQUESTS_PER_HOUR - requestCount - 1,
                                               lastRequest + TIME_WINDOW_MS, ip)
               /\ admittedAt' = [admittedAt EXCEPT ![wallClock] = @ + 1]

(***************************************************************************)
(* The analytics service (src/src/utils/analytics/webVitals.ts): the       *)
(* singleton's fields, and what it has done to the document and to window. *)
(***************************************************************************)
MaxPushes == 8   \* entries of window.dataLayer up to which events are tracked

\* ConsentState
UNKNOWN == "unknown"
GRANTED == "granted"
DENIED == "denied"
ConsentStates == {UNKNOWN, GRANTED, DENIED}

\* lines 72-76
DEFAULT_CONSENT == [necessary |-> TRUE, analytics |-> UNKNOWN, marketing |-> UNKNOWN]

\* import.meta.env: a production build or not, VITE_ENABLE_ANALYTICS, and
\* whether the two identifiers are configured
BuildEnvs == [prod : BOOLEAN, enable : BOOLEAN, gtmId : BOOLEAN, gaId : BOOLEAN]

\* the arguments of updateConsent: a Partial<AnalyticsConsent>; a field that
\* is not given is not in the record
ConsentUpdates ==
    [analytics : ConsentStates] \cup [marketing : {GRANTED, DENIED}]
    \cup [analytics : ConsentStates, marketing : {GRANTED, DENIED}] \cup {<<>>}

\* { ...this.consent, ...consent }
Spread(base, over) ==
    [f \in DOMAIN base |-> IF f \in DOMAIN over THEN over[f] ELSE base[f]]

\* the names of the events the application tracks
EventActions == {"web_vitals", "extraction_success"}

\* what the service has set up: its two flags, the elements it has added to
\* the document, window.dataLayer (has = FALSE: undefined) and window.gtag
NothingSetUp == [gtm |-> FALSE, ga |-> FALSE, injected |-> {},
                 has |-> FALSE, items |-> <<>>, gtag |-> FALSE]
SetUp == [gtm |-> gtmInitialized, ga |-> gaInitialized, injected |-> injected,
          has |-> dataLayer.has, items |-> dataLayer.items, gtag |-> gtagDefined]

\* initializeGTM, lines 185-229
initializeGTM(w, e) ==
    IF w.gtm THEN w
    ELSE IF ~e.gtmId THEN w
    ELSE [w EXCEPT !.injected = @ \cup {"gtm.js", "ns.html"},
                   !.gtm = TRUE,
                   !.has = TRUE,
                   !.items = @ \o <<"gtm.js", "environment">>]

\* initializeGA4, lines 236-281
initializeGA4(w, e) ==
    IF w.ga THEN w
    ELSE IF ~e.gaId THEN w
    ELSE [w EXCEPT !.injected = @ \cup {"gtag/js"},
                   !.has = TRUE,
                   !.gtag = TRUE,
                   !.items = @ \o <<"js", "config", "set">>,
                   !.ga = TRUE]

\* the service's fields and the page after the set-up w
Becomes(w) ==
    /\ gtmInitialized' = w.gtm
    /\ gaInitialized' = w.ga
    /\ injected' = w.injected
    /\ dataLayer' = [has |-> w.has, items |-> w.items]
    /\ gtagDefined' = w.gtag

\* initialize(), lines 160-180
Initialize ==
    /\ ~initialized
    /\ initialized' = TRUE
    /\ IF ~buildEnv.prod /\ ~buildEnv.enable
       THEN UNCHANGED <<gtmInitialized, gaInitialized, injected, dataLayer, gtagDefined>>
       ELSE IF consent.analytics = GRANTED
       THEN Becomes(initializeGA4(initializeGTM(SetUp, buildEnv), buildEnv))
       ELSE UNCHANGED <<gtmInitialized, gaInitialized, injected, dataLayer, gtagDefined>>
    /\ UNCHANGED <<consent, savedConsent, buildEnv>>

\* updateConsent(consent), lines 291-300
UpdateConsent(update) ==
    /\ consent' = Spread(consent, update)
    /\ savedConsent' = consent'
    /\ IF consent'.analytics = GRANTED /\ ~gaInitialized
       THEN Becomes(initializeGA4(initializeGTM(SetUp, buildEnv), buildEnv))
       ELSE UNCHANGED <<gtmInitialized, gaInitialized, injected, dataLayer, gtagDefined>>
    /\ UNCHANGED <<initialized, buildEnv>>

\* faulty variant of MayTrack: the consent is not looked at
MayTrackOnceInitialized(isInitialized, analytics) == isInitialized

\* lines 313 and 354: the guard of trackEvent and of trackPageView
MayTrack(isInitialized, analytics) == isInitialized /\ analytics = GRANTED

\* what trackEvent and trackPageView do with an event name: window.gtag
\* pushes its arguments, then the event is pushed as an object
Track(name) ==
    /\ Len(dataLayer.items) < MaxPushes
    /\ MayTrack(initialized, consent.analytics)
    /\ gtagDefined \/ dataLayer.has
    /\ dataLayer' = [dataLayer EXCEPT !.items =
                       @ \o (IF gtagDefined THEN <<name>> ELSE <<>>)
                         \o (IF dataLayer.has THEN <<name>> ELSE <<>>)]
    /\ UNCHANGED <<consent, savedConsent, initialized, gtmInitialized, gaInitialized,
                   injected, gtagDefined, buildEnv>>

\* trackEvent(eventData), lines 312-345
TrackEvent(action) == Track(action)

\* trackPageView(page), lines 353-377
TrackPageView == Track("page_view")

(***************************************************************************)
(* The landing page (src/src/components/LandingPage.tsx and the App of     *)
(* src/unnamed/part_009): its state hooks and its handlers; validateUrl of *)
(* src/unnamed/part_000.                                                   *)
(***************************************************************************)
MaxSubmits == 3   \* submissions of the form per behaviour

\* null, for the hooks that hold a message or a result
NoMessage == "null"
NoOutcome == [success |-> FALSE, error |-> "null", settled |-> FALSE]

\* what the user may type into the field
TypedUrls == {<<>>, <<" ", " ">>, <<"a", ".", "i", "o">>, <<"h", "t", "t", "p", ":", "/", "/", "a", ".", "i", "o", "/", "x">>,
              <<"a">>, <<"-", "a", ".", "i", "o">>, <<" ", "l", "o", "c", "a", "l", "h", "o", "s", "t">>}

IsAlphanumeric(c) == IsDigit(c) \/ \E n \in 1..26 : c = UpperCase[n] \/ c = LowerCase[n]

\* /^[a-zA-Z0-9]([a-zA-Z0-9-]*[a-zA-Z0-9])?$/
IsLabel(part) ==
    /\ part # <<>>
    /\ IsAlphanumeric(part[1]) /\ IsAlphanumeric(part[Len(part)])
    /\ \A i \in 1..Len(part) : IsAlphanumeric(part[i]) \/ part[i] = "-"

\* isValidUrl of part_000, lines 14-54, for a parsed URL
ValidHostname(hostname) ==
    /\ hostname \notin {<<>>, <<".">>, <<".", ".">>}
    /\ \E i \in 1..Len(hostname) : IsAlphanumeric(hostname[i])
    /\ hostname = H_localhost \/ IndexOf(hostname, ".") # 0
    /\ IndexOf(hostname, ".") # 0 =>
          \A k \in 1..Len(Split(hostname, ".")) : IsLabel(Split(hostname, ".")[k])

\* normalizeUrl of part_000, lines 59-69
normalizeTyped(trimmed) == IF IsHttpText(trimmed) THEN trimmed ELSE S_https \o trimmed

\* validateUrl of part_000, lines 94-129: the error it returns, null if valid
ValidationErrorOf(parsed) ==
    IF parsed.ok /\ ValidHostname(toLowerCase(parsed.hostname))
    THEN NoMessage ELSE "Please enter a valid website URL"
validateUrl(input) ==
    IF Trim(input) = <<>> THEN "URL is required"
    ELSE ValidationErrorOf(ParseAbsolute(normalizeTyped(Trim(input))))

\* how the awaited extraction can end: a result with success, a result
\* without (with or without a message), or a rejection
Outcomes ==
    {[kind |-> "result", success |-> TRUE, error |-> "null"],
     [kind |-> "result", success |-> FALSE, error |-> "Failed to fetch website"],
     [kind |-> "result", success |-> FALSE, error |-> "null"],
     [kind |-> "throws", success |-> FALSE, error |-> "CORS"],
     [kind |-> "throws", success |-> FALSE, error |-> "other"]}

\* handleUrlChange, part_009 lines 81-86
HandleUrlChange(text) ==
    /\ text # urlInput
    /\ urlInput' = text
    /\ validationError' = NoMessage
    /\ UNCHANGED <<isValidating, isExtracting, extractionResult, isDemoMode, pending, submits>>

\* handleDemoSiteClick, part_009 lines 75-79
HandleDemoSiteClick(siteUrl) ==
    /\ urlInput' = siteUrl
    /\ validationError' = NoMessage
    /\ extractionResult' = NoOutcome
    /\ UNCHANGED <<isValidating, isExtracting, isDemoMode, pending, submits>>

\* the demo mode toggle, part_009 line 89
ToggleDemoMode ==
    /\ isDemoMode' = ~isDemoMode
    /\ UNCHANGED <<urlInput, validationError, isValidating, isExtracting, extractionResult,
                   pending, submits>>

\* faulty variant of Finally: the flag is left as it is
FinallyLeaves == isExtracting

\* finally { setIsExtracting(false) }, LandingPage.tsx lines 44-46
Finally == FALSE

\* handleSubmit up to its await, LandingPage.tsx lines 13-33; the button
\* that submits is disabled while isValidating or isExtracting
HandleSubmit ==
    /\ ~(isValidating \/ isExtracting)
    /\ submits < MaxSubmits
    /\ submits' = submits + 1
    /\ extractionResult' = NoOutcome
    /\ isValidating' = FALSE
    /\ validationError' = validateUrl(urlInput)
    /\ IF validationError' # NoMessage
       THEN UNCHANGED <<isExtracting, pending>>
       ELSE /\ isExtracting' = TRUE
            /\ pending' = IF isDemoMode THEN "mockExtractAssets" ELSE "extractAssets"
    /\ UNCHANGED <<urlInput, isDemoMode>>

\* the awaited promise settles: the rest of handleSubmit, LandingPage.tsx
\* lines 34-46, part_009 lines 57-72
ExtractionSettles(outcome) ==
    /\ pending # "none"
    /\ pending' = "none"
    /\ IF outcome.kind = "result"
       THEN /\ extractionResult' = [success |-> outcome.success, error |-> outcome.error,
                                    settled |-> TRUE]
            /\ validationError' =
                 IF outcome.success THEN validationError
                 ELSE IF outcome.error # "null" THEN outcome.error
                 ELSE "Failed to extract assets"
       ELSE /\ validationError' =
                 IF outcome.error = "CORS" THEN "CORS error: Enable Demo Mode"
                 ELSE "An unexpected error occurred. Please try again."
            /\ UNCHANGED extractionResult
    /\ isExtracting' = Finally
    /\ UNCHANGED <<urlInput, isValidating, isDemoMode, submits>>

(***************************************************************************)
(* Initial states.                                                         *)
(***************************************************************************)
LimInit ==
    /\ clock = 0
    /\ kv = [k \in AllKeys |-> NoEntry]
    /\ call = [p \in Procs |-> Idle]
    /\ last = NoResult
    /\ hist = [k \in AllKeys |-> NoHist]
    /\ reported = [ip \in Ips |-> 0]
    /\ faults = 0

SanIdle ==
    /\ content = <<>>
    /\ mode = "strict"
    /\ out = <<>>
    /\ out2 = <<>>
    /\ stage = "raw"
    /\ doc = <<>>

ProxyIdle ==
    /\ req = NoRequest
    /\ resp = NoResponse
    /\ served = 0

ExtIdle ==
    /\ jsEngine = "v8"
    /\ extraction = NoCall
    /\ fetched = <<>>
    /\ found = NoAssets
    /\ fromCss = NoAssets
    /\ toFetch = <<>>
    /\ extracted = NoExtraction

ColorIdle ==
    /\ colorInput = <<>>
    /\ colorOutput = NotNormalized

ServerIdle ==
    /\ wallClock = FirstInstant
    /\ requestCounts = <<>>
    /\ lastRequestTimes = <<>>
    /\ serverResult = NoServerResult
    /\ admittedAt = [t \in ServerInstants |-> 0]

AnalyticsIdle ==
    /\ consent = DEFAULT_CONSENT
    /\ savedConsent = <<>>
    /\ initialized = FALSE
    /\ gtmInitialized = FALSE
    /\ gaInitialized = FALSE
    /\ injected = {}
    /\ dataLayer = [has |-> FALSE, items |-> <<>>]
    /\ gtagDefined = FALSE
    /\ buildEnv = [prod |-> TRUE, enable |-> FALSE, gtmId |-> TRUE, gaId |-> TRUE]

LandingIdle ==
    /\ urlInput = <<>>
    /\ validationError = NoMessage
    /\ isValidating = FALSE
    /\ isExtracting = FALSE
    /\ extractionResult = NoOutcome
    /\ isDemoMode = TRUE
    /\ pending = "none"
    /\ submits = 0

Init == LimInit /\ SanIdle /\ ProxyIdle /\ ExtIdle /\ ColorIdle /\ ServerIdle /\ AnalyticsIdle /\ LandingIdle

(***************************************************************************)
(* Spec: the calls made for one identity in one window, overlapping and    *)
(* with store failures; the clock may run past the end of the window while *)
(* calls are still in flight.                                              *)
(***************************************************************************)
Next ==
    /\ \/ \E t \in WindowStarts : TickTo(t)
       \/ \E ip \in OneIp :
             /\ clock < WINDOW_SIZE
             /\ IdleSlots # {}
             /\ Begin(FirstIdle, ip)
       \/ \E p \in Procs : Get(p)
       \/ \E p \in Procs : Put(p)
       \/ \E p \in Procs : faults < MaxFaults /\ StoreFails(p)
    /\ UNCHANGED <<sanVars, proxyVars, extVars, colorVars, serverVars, analyticsVars, landingVars>>

Spec == Init /\ [][Next]_vars

(***************************************************************************)
(* SpecSeq: calls one after another against a store that never fails,      *)
(* across the sampled windows.                                             *)
(***************************************************************************)
NextSeq ==
    /\ \/ \E t \in Instants : TickTo(t)
       \/ \E ip \in OneIp : IdleSlots = Procs /\ Begin(FirstIdle, ip)
       \/ \E p \in Procs : Get(p)
       \/ \E p \in Procs : Put(p)
    /\ UNCHANGED <<sanVars, proxyVars, extVars, colorVars, serverVars, analyticsVars, landingVars>>

SpecSeq == Init /\ [][NextSeq]_vars

(***************************************************************************)
(* SpecFresh: a few calls for one identity, overlapping, around the end of *)
(* a window in which the identity already has a count; the store never     *)
(* fails.                                                                  *)
(***************************************************************************)
\* counts the first window may hold when the first call arrives
FreshSeeds == {NoEntry,
               [val |-> toString(MAX_REQUESTS - 1), exp |-> WINDOW_SIZE],
               [val |-> toString(MAX_REQUESTS), exp |-> WINDOW_SIZE]}

InitFresh ==
    /\ LandingIdle
    /\ AnalyticsIdle
    /\ ServerIdle
    /\ ColorIdle
    /\ clock = 0
    /\ \E e \in FreshSeeds :
          kv = [k \in AllKeys |-> IF k[2] \in OneIp /\ k[3] = 0 THEN e ELSE NoEntry]
    /\ call = [p \in Procs |-> Idle]
    /\ last = NoResult
    /\ hist = [k \in AllKeys |-> NoHist]
    /\ reported = [ip \in Ips |-> 0]
    /\ faults = 0
    /\ SanIdle
    /\ ProxyIdle
    /\ ExtIdle

NextFresh ==
    /\ \/ \E t \in Instants : TickTo(t)
       \/ \E ip \in OneIp :
             /\ IdleSlots # {}
             /\ hist[KeyOf(ip, WindowStartOf(clock))].begun < MaxFreshCalls
             /\ Begin(FirstIdle, ip)
       \/ \E p \in Procs : Get(p)
       \/ \E p \in Procs : Put(p)
    /\ UNCHANGED <<sanVars, proxyVars, extVars, colorVars, serverVars, analyticsVars, landingVars>>

SpecFresh == InitFresh /\ [][NextFresh]_vars

(***************************************************************************)
(* SpecSanitize: a sanitizer applied to an input, then to its own output.  *)
(***************************************************************************)
InitSanitize ==
    /\ LandingIdle
    /\ AnalyticsIdle
    /\ ServerIdle
    /\ ColorIdle
    /\ LimInit
    /\ ProxyIdle
    /\ ExtIdle
    /\ content \in Inputs
    /\ mode = "strict"
    /\ out = <<>>
    /\ out2 = <<>>
    /\ stage = "raw"
    /\ doc = <<>>

NextSanitize ==
    /\ \/ \E m \in {"strict", "minimal"} : SanitizeOnce(m)
       \/ SanitizeAgain
    /\ UNCHANGED <<limVars, proxyVars, extVars, colorVars, serverVars, analyticsVars, landingVars>>

SpecSanitize == InitSanitize /\ [][NextSanitize]_vars

(***************************************************************************)
(* SpecMarkup: a document is handed to a sanitizer, which returns normally *)
(* or through its catch block.                                             *)
(***************************************************************************)
InitMarkup ==
    /\ LandingIdle
    /\ AnalyticsIdle
    /\ ServerIdle
    /\ ColorIdle
    /\ LimInit
    /\ ProxyIdle
    /\ ExtIdle
    /\ doc \in Docs
    /\ content = Render(doc)
    /\ mode = "strict"
    /\ out = <<>>
    /\ out2 = <<>>
    /\ stage = "raw"

NextMarkup ==
    /\ \/ \E m \in {"strict", "minimal"} : SanitizeOnce(m)
       \/ \E m \in {"strict", "minimal"}, inner \in BOOLEAN : SanitizeFails(m, inner)
       \/ ServerSanitizeFails
    /\ UNCHANGED <<limVars, proxyVars, extVars, colorVars, serverVars, analyticsVars, landingVars>>

SpecMarkup == InitMarkup /\ [][NextMarkup]_vars

(***************************************************************************)
(* SpecProxy: proxy requests, one at a time, against a store that already  *)
(* holds counts for some identities.                                       *)
(***************************************************************************)
\* counts the store may hold when the first request arrives
SeedEntries == {NoEntry, [val |-> toString(MAX_REQUESTS - 1), exp |-> WINDOW_SIZE]}

InitProxy ==
    /\ LandingIdle
    /\ AnalyticsIdle
    /\ ServerIdle
    /\ ColorIdle
    /\ clock = 0
    /\ \E e \in SeedEntries : kv = [k \in AllKeys |-> IF k[3] = 0 THEN e ELSE NoEntry]
    /\ call = [p \in Procs |-> Idle]
    /\ last = NoResult
    /\ hist = [k \in AllKeys |-> NoHist]
    /\ reported = [ip \in Ips |-> 0]
    /\ faults = 0
    /\ SanIdle
    /\ ProxyIdle
    /\ ExtIdle

NextProxy ==
    /\ \/ \E impl \in {"worker", "pages"}, url \in TargetUrls, h \in HeaderSets, hasKV \in BOOLEAN :
             ProxyStart(impl, url, h, hasKV)
       \/ req.hasKV /\ Get(ProxySlot) /\ UNCHANGED proxyVars
       \/ req.hasKV /\ Put(ProxySlot) /\ UNCHANGED proxyVars
       \/ (~req.hasKV \/ faults < MaxFaults) /\ StoreFails(ProxySlot) /\ UNCHANGED proxyVars
       \/ ProxyResume
       \/ \E up \in Upstream : ProxyFetchSettles(up)
    /\ UNCHANGED <<sanVars, extVars, colorVars, serverVars, analyticsVars, landingVars>>

SpecProxy == InitProxy /\ [][NextProxy]_vars

(***************************************************************************)
(* SpecExtract: one call of extractAssets, with either parser, on either   *)
(* engine, for a page of up to MaxElems elements.                          *)
(***************************************************************************)
InitExtract ==
    /\ LandingIdle
    /\ AnalyticsIdle
    /\ ServerIdle
    /\ ColorIdle
    /\ LimInit
    /\ SanIdle
    /\ ProxyIdle
    /\ jsEngine \in Engines
    /\ extraction = NoCall
    /\ fetched = <<>>
    /\ found = NoAssets
    /\ fromCss = NoAssets
    /\ toFetch = <<>>
    /\ extracted = NoExtraction

NextExtract ==
    /\ \/ \E parser \in {"secure", "regex"}, url \in Urls : ExtractAssets(parser, url)
       \/ \E how \in {"not ok", "rejected"} : PageFetchFails(how)
       \/ \E html \in Pages : PageFetchSettles(html)
       \/ \E ok \in BOOLEAN, cssContent \in CssContents : CssFetchSettles(ok, cssContent)
    /\ UNCHANGED <<limVars, sanVars, proxyVars, colorVars, serverVars, analyticsVars, landingVars>>

SpecExtract == InitExtract /\ [][NextExtract]_vars

(***************************************************************************)
(* SpecColor: normalizeColor is called once with a hex or an rgb() text.   *)
(***************************************************************************)
InitColor ==
    /\ LandingIdle
    /\ AnalyticsIdle
    /\ ServerIdle
    /\ LimInit
    /\ SanIdle
    /\ ProxyIdle
    /\ ExtIdle
    /\ colorInput \in ColorInputs
    /\ colorOutput = NotNormalized

NextColor ==
    /\ NormalizeColor
    /\ UNCHANGED <<limVars, sanVars, proxyVars, extVars, serverVars, analyticsVars, landingVars>>

SpecColor == InitColor /\ [][NextColor]_vars

(***************************************************************************)
(* SpecServer: calls of the Express server's checkRateLimit, at the        *)
(* sampled instants, in any number at each.                                *)
(***************************************************************************)
InitServer == Init

NextServer ==
    /\ \/ \E t \in ServerInstants : ServerTick(t)
       \/ \E ip \in ServerIps : CheckRateLimitServer(ip)
    /\ UNCHANGED <<limVars, sanVars, proxyVars, extVars, colorVars, analyticsVars, landingVars>>

SpecServer == InitServer /\ [][NextServer]_vars

(***************************************************************************)
(* SpecAnalytics: the calls of the analytics service, in any order, from   *)
(* the default consent, in every build environment.                        *)
(***************************************************************************)
InitAnalytics ==
    /\ LandingIdle
    /\ LimInit /\ SanIdle /\ ProxyIdle /\ ExtIdle /\ ColorIdle /\ ServerIdle
    /\ consent = DEFAULT_CONSENT
    /\ savedConsent = <<>>
    /\ initialized = FALSE
    /\ gtmInitialized = FALSE
    /\ gaInitialized = FALSE
    /\ injected = {}
    /\ dataLayer = [has |-> FALSE, items |-> <<>>]
    /\ gtagDefined = FALSE
    /\ buildEnv \in BuildEnvs

NextAnalytics ==
    /\ \/ Initialize
       \/ \E update \in ConsentUpdates : UpdateConsent(update)
       \/ \E action \in EventActions : TrackEvent(action)
       \/ TrackPageView
    /\ UNCHANGED <<limVars, sanVars, proxyVars, extVars, colorVars, serverVars, landingVars>>

SpecAnalytics == InitAnalytics /\ [][NextAnalytics]_vars

(***************************************************************************)
(* SpecLanding: the landing page, its field, its demo sites and toggle,    *)
(* and submissions of its form.  SpecLandingFair: the same, with every     *)
(* awaited extraction settling.                                            *)
(***************************************************************************)
InitLanding == Init

NextLanding ==
    /\ \/ \E text \in TypedUrls : HandleUrlChange(text)
       \/ \E siteUrl \in {<<"a", ".", "i", "o">>} : HandleDemoSiteClick(siteUrl)
       \/ ToggleDemoMode
       \/ HandleSubmit
       \/ \E outcome \in Outcomes : ExtractionSettles(outcome)
    /\ UNCHANGED <<limVars, sanVars, proxyVars, extVars, colorVars, serverVars, analyticsVars>>

SpecLanding == InitLanding /\ [][NextLanding]_vars

SpecLandingFair ==
    SpecLanding /\ WF_landingVars(\E outcome \in Outcomes : ExtractionSettles(outcome))

(***************************************************************************)
(* Claims about the rate limiter.                                          *)
(***************************************************************************)
\* C1 as stated: for every identity and window, at most MAX_REQUESTS calls
\* return limited:false, whatever the overlap and the state of the store.
C1_AtMostMaxPasses == \A k \in AllKeys : hist[k].passes <= MAX_REQUESTS

\* C1 amended: for every identity and window, the calls that return
\* limited:false number at most MAX_REQUESTS plus the calls that failed open
\* (a store operation of theirs failed), plus the calls that began while
\* another call for the same key was in flight, plus one if a call's store
\* operation happened after the end of its window.  With none of these, the
\* bound is MAX_REQUESTS.
C1_BoundedPasses ==
    \A k \in AllKeys :
        hist[k].passes <= MAX_REQUESTS + hist[k].failOpens + hist[k].overlaps
                            + (IF hist[k].late THEN 1 ELSE 0)

\* the bound is met with a failed store operation and an overlap behind, and
\* the next call for the key is refused
C1_Witness ==
    \E k \in AllKeys : /\ hist[k].failOpens > 0 /\ hist[k].overlaps > 0 /\ ~hist[k].late
                       /\ hist[k].passes = MAX_REQUESTS + hist[k].failOpens + hist[k].overlaps
                       /\ last.key = k /\ last.limited

\* C3: a call whose store read or write failed returns (the catch block
\* answers, nothing is thrown) and its result is limited:false.
C3_FailOpen ==
    /\ last.how = "catch" => ~last.limited
    /\ faults > 0 => \E k \in AllKeys : hist[k].failOpens = faults

C3_Witness == last.how = "catch" /\ faults > 0 /\ ~last.limited

C2_Boundary ==
    (last.how # "none" /\ ~hist[last.key].late) =>
        /\ last.nth <= MAX_REQUESTS => ~last.limited
        /\ last.nth = MAX_REQUESTS + 1 => (last.limited /\ last.remaining = 0)

C2_Witness ==
    /\ last.how = "limited" /\ last.nth = MAX_REQUESTS + 1
    /\ ~hist[last.key].late /\ hist[last.key].passes = MAX_REQUESTS

\* C5, as stated: with a reachable store, the first call made at or after
\* the resetTime an earlier call reported returns limited:false with
\* remaining MAX_REQUESTS - 1, whatever count the identity reached in the
\* previous window.
C5_NewWindowStartsFresh ==
    (last.how # "none" /\ last.fresh) =>
        (~last.limited /\ last.remaining = MAX_REQUESTS - 1)

\* C5, amended: with a reachable store, the first call made at or after the
\* resetTime an earlier call reported returns limited:false with remaining
\* MAX_REQUESTS - 1, whatever count the identity reached in the previous
\* window, provided no other call for the identity began while it was in
\* flight.
C5_SoloNewWindowStartsFresh ==
    (last.how # "none" /\ last.fresh /\ hist[last.key].overlaps = 0) =>
        (~last.limited /\ last.remaining = MAX_REQUESTS - 1)

\* the identity was refused in the previous window, and its first call of the
\* new window, made alone, starts from count 0
C5_Witness ==
    /\ last.fresh /\ ~last.limited /\ last.remaining = MAX_REQUESTS - 1
    /\ hist[last.key].overlaps = 0
    /\ \E k \in AllKeys : k # last.key /\ k[2] = last.key[2]
                          /\ hist[k].begun > hist[k].passes /\ ~hist[k].late

(***************************************************************************)
(* Claims about the sanitizers.                                            *)
(***************************************************************************)
\* position i lies inside a tag: after a "<" with no ">" in between
InTag(s, i) == \E k \in 1..(i - 1) : s[k] = "<" /\ \A m \in k..i : s[m] # ">"

\* an opening <script ...> tag followed later by a closing </script> tag
HasScriptBlock(s) ==
    \E i \in 1..Len(s) :
        /\ MatchLit(s, i, L_script) /\ BoundaryAt(s, i + 7)
        /\ \E g \in (i + 7)..Len(s) :
              /\ s[g] = ">"
              /\ \E j \in (g + 1)..Len(s) : MatchLit(s, j, L_endscript)

\* an attribute on<name>= inside a tag, whatever follows the "="
HasEventHandler(s) ==
    \E i \in 1..Len(s) :
        /\ IsSpace(s[i]) /\ InTag(s, i)
        /\ MatchLit(s, i + 1, L_on)
        /\ i + 3 <= Len(s) /\ IsWord(s[i + 3])
        /\ LET eq == SkipSpaces(s, SkipWord(s, i + 3))
           IN eq <= Len(s) /\ s[eq] = "="

\* an attribute href= or src= inside a tag whose value, quoted or not, starts
\* with one of the three schemes
HasDangerousUrl(s) ==
    \E i \in 1..Len(s) :
        /\ IsSpace(s[i]) /\ InTag(s, i)
        /\ \E a \in {L_href, L_src} :
              /\ MatchLit(s, i + 1, a)
              /\ LET eq == SkipSpaces(s, i + 1 + Len(a))
                     v0 == SkipSpaces(s, eq + 1)
                     v == IF v0 <= Len(s) /\ IsQuote(s[v0]) THEN v0 + 1 ELSE v0
                 IN /\ eq <= Len(s) /\ s[eq] = "="
                    /\ \E sch \in {L_javascript, L_data, L_vbscript} : MatchLit(s, v, sch)

\* C7: both sanitizers are idempotent: applying one to its own output
\* returns that output unchanged.
C7_Idempotent == stage = "twice" => out2 = out

\* C8: the output of strict sanitization contains no script block.
C8_NoScriptBlock == (stage # "raw" /\ mode = "strict") => ~HasScriptBlock(out)

\* C9: the output of strict sanitization contains no on* event-handler
\* attribute, quoted or unquoted.
C9_NoEventHandler == (stage # "raw" /\ mode = "strict") => ~HasEventHandler(out)

\* C10: the output of strict sanitization contains no href or src attribute
\* whose value starts with javascript:, data: or vbscript:.
C10_NoDangerousUrl == (stage # "raw" /\ mode = "strict") => ~HasDangerousUrl(out)

(***************************************************************************)
(* Claims about the proxy (SpecProxy).                                     *)
(***************************************************************************)
\* the request being handled went through checkRateLimit for its own client
\* identity and the call returned limited:false
CheckedAndPassed ==
    /\ req.checked
    /\ ~req.rl.limited
    /\ req.checkedIp = ClientIp(req.headers)

\* a request whose check returned limited:true got 429 and no upstream fetch
LimitedGets429 ==
    (req.checked /\ req.rl.limited) =>
        /\ req.fetches = 0
        /\ req.pc = "done"
        /\ resp.status = 429

\* C6, as stated: the upstream fetch of a request is issued only after the
\* rate-limit check for the request's client identity has completed and
\* returned limited:false; a request whose check returns limited:true is
\* answered with 429 and causes no upstream fetch.
C6_FetchOnlyAfterPass ==
    /\ req.fetches > 0 => CheckedAndPassed
    /\ LimitedGets429

\* C6, amended: as above, except that the Pages handler, when no rate-limit
\* store is bound (env.RATE_LIMIT_KV is absent), makes no check at all and
\* issues the fetch; every other fetch follows a check for the request's
\* identity that returned limited:false, and limited:true gives 429, no fetch.
C6_FetchOnlyAfterPassOrNoStore ==
    /\ req.fetches > 0 =>
          \/ CheckedAndPassed
          \/ req.impl = "pages" /\ ~req.hasKV /\ ~req.checked
    /\ req.fetches <= 1
    /\ LimitedGets429

\* a request was refused with 429 after an earlier request of the same
\* identity had passed the check (and so had been fetched)
C6_Witness ==
    /\ req.pc = "done"
    /\ req.checked
    /\ req.rl.limited
    /\ req.fetches = 0
    /\ resp.status = 429
    /\ hist[last.key].passes > 0

(***************************************************************************)
(* Claims about what the sanitizers keep and about their catch blocks      *)
(* (SpecMarkup).                                                           *)
(***************************************************************************)
\* C11: extraction-preserving sanitization changes nothing except what it is
\* meant to remove: every protected element of the document (img, svg, style,
\* with their class and id attributes and data: URLs) appears in the output
\* as it was, handler attribute apart, and the output is the document without
\* its script blocks, load/error/click handler attributes and javascript:
\* href/src attributes.
C11_OnlyRemovesWhatItShould ==
    (stage = "once" /\ mode = "minimal") =>
        /\ \A i \in 1..Len(doc) :
              doc[i].protected => Includes(out, SegText(doc[i].segs, 1, TRUE))
        /\ out = Kept(doc)

\* the entire input with the characters < > & " ' replaced by entities
AllEscaped(s) ==
    LET entity(c) == CASE c = "<" -> <<"&", "l", "t", ";">>
                       [] c = ">" -> <<"&", "g", "t", ";">>
                       [] c = "&" -> <<"&", "a", "m", "p", ";">>
                       [] c = "\"" -> <<"&", "q", "u", "o", "t", ";">>
                       [] c = "'" -> <<"&", "#", "3", "9", ";">>
                       [] OTHER -> <<c>>
        RECURSIVE from(_)
        from(i) == IF i > Len(s) THEN <<>> ELSE entity(s[i]) \o from(i + 1)
    IN from(1)

Returned(parser) ==
    extraction.pc = "done" /\ extraction.parser = parser /\ extracted.hasAssets

\* C13: when logo candidates share a grouping key (hostname and normalized
\* filename), the logo list the secure parser returns holds exactly one
\* logo of that group: no two returned logos have the same key.
C13_OnePerGroup ==
    Returned("secure") =>
        \A i, j \in 1..Len(extracted.assets.logos) :
            i # j => similarityKey(extracted.assets.logos[i].url)
                     # similarityKey(extracted.assets.logos[j].url)

\* the logo candidates handed to deduplicateLogos: those of the elements and
\* the fallback, then those of the meta elements
Candidates ==
    found.logos \o extractAssetsFromMetaTags(fetched, validBaseUrl(extraction.url)).logos

ThroughDeduplication == Returned("secure") /\ extracted.how = "returned"

\* the size the order of C14 speaks of: width times height, or the square
\* of a single number; -1 (below every size) without a number in the URL
ClaimedSize(url) == IF SizeMatch(url).found THEN aSize(SizeMatch(url)).n ELSE -1

\* candidate a (at position ia) comes before candidate b (at position ib)
\* in the order of C14
ClaimedBefore(a, ia, b, ib) ==
    \/ ClaimedSize(a.url) > ClaimedSize(b.url)
    \/ /\ ClaimedSize(a.url) = ClaimedSize(b.url)
       /\ \/ IsSvg(a.url) /\ ~IsSvg(b.url)
          \/ /\ IsSvg(a.url) = IsSvg(b.url)
             /\ \/ HasAlt(a.alt) /\ ~HasAlt(b.alt)
                \/ HasAlt(a.alt) = HasAlt(b.alt) /\ ia < ib

\* C14: of the candidates of a group, the logo the secure parser emits is
\* the first in the strict order: larger size parsed from the URL (no size
\* below any size), then SVG before raster, then an alt text of more than
\* three characters without "favicon", then the earlier position in the
\* input; this for every order of the input.
C14_BestOfGroup ==
    ThroughDeduplication =>
        \A e \in 1..Len(extracted.assets.logos) :
            \E ie \in 1..Len(Candidates) :
                /\ Candidates[ie] = extracted.assets.logos[e]
                /\ \A ic \in 1..Len(Candidates) :
                       similarityKey(Candidates[ic].url) = similarityKey(Candidates[ie].url)
                           => ~ClaimedBefore(Candidates[ic], ic, Candidates[ie], ie)

U_icon32 == <<"h", "t", "t", "p", "s", ":", "/", "/", "a", ".", "i", "o", "/", "i", "c", "o", "n", "-", "3", "2", ".", "p", "n", "g">>
U_icon192 == <<"h", "t", "t", "p", "s", ":", "/", "/", "a", ".", "i", "o", "/", "i", "c", "o", "n", "-", "1", "9", "2", ".", "p", "n", "g">>
HasLogo(assets, url) == \E k \in 1..Len(assets.logos) : assets.logos[k].url = url
HasElement(el) == \E k \in 1..Len(fetched) : fetched[k] = el

\* C15: a page that links /icon-32.png and /icon-192.png of one host as
\* icons gets the 192 icon, and not the 32 icon, in its logos, whichever
\* of the two links comes first.
C15_LargerIconWins ==
    (ThroughDeduplication /\ HasElement(E_icon32) /\ HasElement(E_icon192))
        => /\ HasLogo(extracted.assets, U_icon192)
           /\ ~HasLogo(extracted.assets, U_icon32)

\* an absolute URL: it has a scheme and parses without a base
IsAbsoluteUrl(url) == ParseAbsolute(url).ok \/ StartsWith(url, S_data)

\* C16: every logo and every illustration of a returned asset set has an
\* absolute URL; a reference that does not resolve against the base is
\* dropped, never stored as it was written.
C16_AbsoluteUrls ==
    \A parser \in {"secure", "regex"} :
        Returned(parser) =>
            /\ \A k \in 1..Len(extracted.assets.logos) :
                   IsAbsoluteUrl(extracted.assets.logos[k].url)
            /\ \A k \in 1..Len(extracted.assets.illustrations) :
                   IsAbsoluteUrl(extracted.assets.illustrations[k].url)

\* no two elements of the collection agree on the field
DuplicateFree(field(_), assets) ==
    \A i, j \in 1..Len(assets) : i # j => field(assets[i]) # field(assets[j])

\* C17: every returned asset set, on every path through the parser, the
\* path through its catch block included, has no two illustrations with the
\* same URL, no two colors with the same value, no two fonts with the same
\* name and no two logos with the same URL.
C17_DuplicateFree ==
    LET url(a) == a.url
        value(a) == a.value
        name(a) == a.name
    IN \A parser \in {"secure", "regex"} :
           Returned(parser) =>
               /\ DuplicateFree(url, extracted.assets.illustrations)
               /\ DuplicateFree(value, extracted.assets.colors)
               /\ DuplicateFree(name, extracted.assets.fonts)
               /\ DuplicateFree(url, extracted.assets.logos)

\* the img element el, whose reference resolves to an http(s) URL, is among
\* the logos, or among the illustrations, of the returned asset set
Resolvable(el) ==
    /\ el.kind = "img"
    /\ URL(el.ref, validBaseUrl(extraction.url)).ok
    /\ IsHttp(URL(el.ref, validBaseUrl(extraction.url)))

ReportedAs(type, el, assets) ==
    \E k \in 1..Len(assets) :
        /\ assets[k].type = type
        /\ assets[k].url = URL(el.ref, validBaseUrl(extraction.url)).href
        /\ assets[k].alt = el.alt
        /\ assets[k].source = "html"

\* C19: no img element is reported both as a logo and as an illustration:
\* an img with a resolvable http(s) URL is among the illustrations exactly
\* when the classifier, looking at its URL, alt text, class and id, did not
\* take it for a logo.
C19_LogoOrIllustration ==
    Returned("secure") =>
        \A k \in 1..Len(fetched) :
            Resolvable(fetched[k]) =>
                (ReportedAs("illustration", fetched[k], extracted.assets.illustrations)
                 <=> ~isLikelyLogo(fetched[k].ref, fetched[k].alt, fetched[k].class, fetched[k].id))

\* the fetched body holds no asset reference: it is text, and nothing else
NoAssetReference == fetched # <<>> /\ \A k \in 1..Len(fetched) : fetched[k] = E_text
Parsed(parser) ==
    /\ extraction.pc = "done"
    /\ extraction.parser = parser
    /\ extracted.how \notin {"not ok", "rejected"}

FallbackFavicon ==
    Asset("logo", URL(<<"/", "f", "a", "v", "i", "c", "o", "n", ".", "i", "c", "o">>, validBaseUrl(extraction.url)).href, A_DefaultFavicon, "html")

Discovered == extractLogosSecurely(fetched, validBaseUrl(extraction.url))
LogosDiscovered ==
    /\ extraction.parser = "secure"
    /\ \/ extraction.pc = "css"
       \/ extraction.pc = "done" /\ extracted.hasAssets
FallbackAdded == \E k \in 1..Len(found.logos) : found.logos[k] = FallbackFavicon
HasIconLink == \E k \in 1..Len(fetched) : fetched[k].kind = "icon"

\* C20 as stated: the fallback candidate /favicon.ico is added exactly when
\* the page has no icon-link element of the favicon/touch-icon family.
C20_FallbackIffNoIconLink ==
    LogosDiscovered => (FallbackAdded <=> ~HasIconLink)

\* C20 amended: the fallback candidate /favicon.ico is added exactly when
\* no logo candidate found by discovery (icon links and images classified
\* as logos) has a URL that contains "favicon"; an icon link to a file with
\* another name does not keep the fallback out.
C20_FallbackIffNoFaviconUrl ==
    LogosDiscovered =>
        (FallbackAdded <=> \A k \in 1..Len(Discovered) : ~Includes(Discovered[k].url, W_favicon))

C20_Witness ==
    /\ LogosDiscovered
    /\ HasElement(E_icon192)
    /\ FallbackAdded


(***************************************************************************)
(* Claims about fonts and colors.                                          *)
(***************************************************************************)
\* the generic family keywords and system-font aliases, in lower case
GenericNames == {toLowerCase(g) : g \in genericFonts}

\* C21: no font of a successful extraction has a generic family keyword or
\* a system-font alias, in any letter case, as its whole name
C21_NoGenericFont ==
    extracted.success =>
        \A k \in 1..Len(extracted.assets.fonts) :
            toLowerCase(extracted.assets.fonts[k].name) \notin GenericNames

\* what the claim says the normalizer returns
IsLowerHexDigit(c) == \E n \in 1..16 : HexDigitChars[n] = c
SixDigitHex(text) ==
    /\ Len(text) = 7
    /\ text[1] = "#"
    /\ \A k \in 2..7 : IsLowerHexDigit(text[k])
TwoDigits(n) == <<HexDigitChars[(n \div 16) + 1], HexDigitChars[(n % 16) + 1]>>
Doubled(d) == <<Lower(d[1]), Lower(d[1]), Lower(d[2]), Lower(d[2]), Lower(d[3]), Lower(d[3])>>
Normalized == colorOutput # NotNormalized

\* C22: for a valid hex text (3 or 6 digits, any case) and for rgb(r,g,b)
\* with channels in 0..255 the normalizer returns # and six lower-case hex
\* digits: a 3-digit hex with every digit doubled, an rgb() with every
\* channel as two zero-padded base-16 digits
C22_SixDigitHex ==
    Normalized =>
        /\ SixDigitHex(colorOutput)
        /\ \A d \in [1..3 -> HexSample3] :
               colorInput = Hex3Text(d) => colorOutput = <<"#">> \o Doubled(d)
        /\ \A d \in [1..6 -> HexSample6] :
               colorInput = Hex6Text(d) => colorOutput = <<"#">> \o [k \in 1..6 |-> Lower(d[k])]
        /\ \A form \in RgbForms, r \in Channels, g \in Channels, b \in Channels :
               colorInput = RgbText(form, r, g, b)
                   => colorOutput = <<"#">> \o TwoDigits(r) \o TwoDigits(g) \o TwoDigits(b)

\* an rgb() text with a channel below 16 and one above has been normalized
C22_Witness ==
    /\ Normalized
    /\ colorInput = RgbText("spaced", 7, 200, 0)

(***************************************************************************)
(* Claims about the targets the proxy handlers fetch and about the bodies  *)
(* they return (SpecProxy).                                                *)
(***************************************************************************)
\* the hosts the claim calls local or private: localhost, the loopback
\* addresses 127.0.0.0/8 and ::1, 10.0.0.0/8, 172.16.0.0/12, 192.168.0.0/16
LocalOrPrivate(hostname) ==
    \/ hostname = H_localhost
    \/ hostname = <<"[", ":", ":", "1", "]">>
    \/ StartsWith(hostname, <<"1", "2", "7", ".">>)
    \/ StartsWith(hostname, <<"1", "0", ".">>)
    \/ Private172(hostname)
    \/ StartsWith(hostname, <<"1", "9", "2", ".", "1", "6", "8", ".">>)

\* C23: no handler issues an upstream fetch for a target whose host is
\* local or private; such a request is answered before any fetch
C23_NoPrivateFetch ==
    req.fetches > 0 => ~LocalOrPrivate(req.url.hostname)

\* the sanitizers the claim allows for a request: the extraction-preserving
\* one with the header X-Purpose: asset-extraction; without it a strict one,
\* that of functions/_lib/utils.ts or the entity encoder of serverUtils.ts
ClaimedSanitizers(headers) ==
    IF headers.purpose = "asset-extraction" THEN {"minimal"} ELSE {"strict", "entity"}

\* C24: a 200 answer whose body went through the text/html branch holds the
\* output of the extraction-preserving sanitizer exactly when the request
\* carries X-Purpose: asset-extraction, and of a strict sanitizer otherwise
C24_SanitizerByPurpose ==
    (req.pc = "done" /\ resp.status = 200 /\ resp.sanitizer # "none") =>
        resp.sanitizer \in ClaimedSanitizers(req.headers)

(***************************************************************************)
(* Claims about what checkRateLimit writes to the store.                   *)
(***************************************************************************)
\* the entry under key k changes in this step
Written(k) == kv'[k] # kv[k]

\* the step writes, for a call p at its put, the key of the call's identity
\* and of the window of the instant the call read, the count the call read
\* plus one in decimal, and an expiry that lies the remaining time of that
\* window, rounded up to whole seconds, after the instant of the write
WriteOf(p, k) ==
    /\ call[p].pc = "put"
    /\ k = <<"rate_limit:", call[p].ip, (call[p].now \div 3600000) * 3600000>>
    /\ kv'[k].val = toString(call[p].cur + 1)
    /\ parseInt(kv'[k].val) = call[p].cur + 1
    /\ kv'[k].exp = clock + CeilDiv(k[3] + 3600000 - call[p].now, 1000) * 1000

\* C25, as stated: every store write uses the key of the identity and the
\* window, stores the new count in decimal and sets the expiry to the time
\* remaining in the window, rounded up to whole seconds, so that no entry is
\* still live one second after its window has ended.
C25_GoneOneSecondAfterWindow ==
    [][\A k \in AllKeys :
          Written(k) => /\ \E p \in Procs : WriteOf(p, k)
                        /\ kv'[k].exp <= k[3] + WINDOW_SIZE + 1000]_vars

\* C25, amended: key, value and expiry are as stated, the expiry counting
\* from the instant of the write and the remaining time from the instant the
\* call read the clock; so an entry is gone one second after its window has
\* ended only if the write follows the clock read at once: in general it is
\* gone by one second plus the time between the two after the window's end.
C25_GoneAfterWindowPlusDelay ==
    [][\A k \in AllKeys :
          Written(k) =>
              \E p \in Procs :
                  /\ WriteOf(p, k)
                  /\ kv'[k].exp < k[3] + WINDOW_SIZE + 1000 + (clock - call[p].now)]_vars

\* a call that read the clock in the last millisecond of a window wrote its
\* count after the window had ended: the entry outlives the window by more
\* than a second
C25_Witness ==
    /\ last.how = "pass"
    /\ kv[last.key].val = toString(MAX_REQUESTS - last.remaining)
    /\ kv[last.key].exp > last.key[3] + WINDOW_SIZE + 1000

\* C26: whatever the interleaving of the calls, the value stored under a
\* rate-limit key is the decimal text of an integer between 1 and the limit
\* of 100: no write stores a count above the limit
C26_StoredCountWithinLimit ==
    \A k \in AllKeys :
        kv[k].val # Null =>
            /\ parseInt(kv[k].val) \in 1..100
            /\ toString(parseInt(kv[k].val)) = kv[k].val

\* the count of a key stands at the limit after calls that overlapped, and
\* more calls were begun for the key than the limit allows
C26_Witness ==
    \E k \in AllKeys :
        /\ kv[k].val = toString(100)
        /\ hist[k].overlaps > 0
        /\ hist[k].begun > 100
        /\ last.key = k /\ last.how = "limited"

(***************************************************************************)
(* Claims about rejected proxy requests (SpecProxy).                       *)
(***************************************************************************)
\* the step ends a request with the handler's own 400 or 403: the URL
\* parameter is missing, the URL is invalid or unsafe, or the host is local
\* or private (a 403 of the upstream, passed on after the fetch, is not one)
Rejects ==
    /\ req' # req /\ req'.pc = "done" /\ resp'.status \in {400, 403}
    /\ \/ ~req'.url.given
       \/ ~isValidUrl(req'.impl, req'.url)
       \/ BlockedHost(req'.url)

\* C27: a request answered with 400 or 403 is answered in the step it
\* arrives in, before any await: no checkRateLimit call is begun for it, the
\* store is neither read nor written and no count changes
C27_RejectedTouchesNoStore ==
    [][Rejects => /\ served' = served + 1
                  /\ ~req'.checked /\ req'.fetches = 0
                  /\ UNCHANGED <<kv, call, hist, last>>]_vars

\* a client that has used one request of the window has a second request
\* rejected with 400 or 403
C27_Witness ==
    /\ served = 2
    /\ req.pc = "done" /\ resp.status \in {400, 403}
    /\ ~req.checked /\ req.fetches = 0
    /\ \E k \in AllKeys :
          /\ k[2] = ClientIp(req.headers)
          /\ hist[k].begun = 1 /\ hist[k].passes = 1

(***************************************************************************)
(* Claims about the in-memory limiter of the Express server (SpecServer).  *)
(***************************************************************************)
\* the calls that returned limited:false at the instants of the hour that
\* begins at t, both ends included
RECURSIVE AdmittedIn(_, _)
AdmittedIn(instants, t) ==
    IF instants = {} THEN 0
    ELSE LET s == CHOOSE x \in instants : TRUE
         IN (IF t <= s /\ s <= t + TIME_WINDOW_MS THEN admittedAt[s] ELSE 0)
            + AdmittedIn(instants \ {s}, t)

\* C28: for a non-empty address, in every interval of one hour at most 100
\* calls of the server's checkRateLimit return limited:false, whatever the
\* times of the calls
C28_AtMostHundredPerHour ==
    \A t \in ServerInstants : AdmittedIn(ServerInstants, t) <= 100

\* a hundred calls were admitted at one instant, none one hour later, and
\* a call a millisecond after that was admitted again, as the first of a
\* new count
C28_Witness ==
    /\ admittedAt[FirstInstant] = 100
    /\ admittedAt[FirstInstant + TIME_WINDOW_MS] = 0
    /\ admittedAt[FirstInstant + TIME_WINDOW_MS + 1] = 1
    /\ serverResult.ip # "" /\ ~serverResult.limited
    /\ requestCounts[serverResult.ip] = 1

(***************************************************************************)
(* Claims about the analytics service (SpecAnalytics).                     *)
(***************************************************************************)
\* the step hands something to gtag or to dataLayer, or adds a script of
\* Google Tag Manager or Google Analytics to the document
SendsOrInjects ==
    \/ dataLayer' # dataLayer
    \/ injected' # injected
    \/ gtagDefined' # gtagDefined

\* C29: starting from the default consent, whatever the calls of initialize,
\* updateConsent, trackEvent and trackPageView, a step sends an event to gtag
\* or dataLayer, or injects a script, only with the analytics consent
\* granted at that moment
C29_NothingWithoutConsent ==
    [][SendsOrInjects => consent'.analytics = GRANTED]_vars

\* the consent was granted and then withdrawn after the scripts had been
\* injected and an event had been tracked: gtag and dataLayer are there,
\* the service is initialized, the consent is denied
C29_Witness ==
    /\ initialized
    /\ consent.analytics = DENIED
    /\ gtagDefined /\ dataLayer.has
    /\ \E i \in 1..Len(dataLayer.items) : dataLayer.items[i] = "page_view"

(***************************************************************************)
(* Claims about the landing page (SpecLandingFair).                        *)
(***************************************************************************)
PageIdle == pending = "none" /\ ~isValidating /\ ~isExtracting

\* C30: whatever validation and extraction do, with no extraction awaited
\* the page is idle, isValidating and isExtracting both false; and a
\* submission that started an extraction leads, once the awaited promise has
\* settled, back to the idle page: the form does not stay disabled forever
C30_BackToIdle ==
    /\ [](pending = "none" => PageIdle)
    /\ (pending # "none") ~> PageIdle

\* an extraction was awaited and rejected: the page shows the message of
\* the catch block and is idle again
C30_Witness ==
    /\ PageIdle
    /\ submits > 0
    /\ validationError = "An unexpected error occurred. Please try again."
    /\ ~extractionResult.settled

====================================================================
